---- MODULE Spec2Model ----
(***************************************************************************)
(* RALE leader election (librale/src/rale_proto.c) and the DStore          *)
(* replicated key-value store (librale/src/dstore.c, hash.c, db.c) of      *)
(* pgElephant/rale, as run by raled (raled/src/raled_main.c): three nodes  *)
(* with ids 1, 2, 3, all on 127.0.0.1.                                     *)
(*                                                                         *)
(* Time is abstract: a timer that may have expired is a nondeterministic   *)
(* choice.  Strings that the code hashes or compares are sequences of      *)
(* character codes.                                                        *)
(***************************************************************************)
EXTENDS Integers, Sequences, FiniteSets, TLC

(***************************************************************************)
(* Bounds of the model.                                                    *)
(***************************************************************************)
\* Elections are started only while current_term is below MaxTerm, and the
\* terms carried by datagrams and lines are at most MaxTerm.
MaxTerm == 2
\* rale.db holds at most MaxJournal lines; a PUT that would append one more
\* is not taken.
MaxJournal == 2
\* At most MaxCalls calls are made on the membership registry once it is
\* built.
MaxCalls == 4
\* The clock is followed up to MaxTime seconds.
MaxTime == 3
\* The attempts to connect are followed up to MaxClock seconds.
MaxClock == 30
\* config.dstore.keep_alive_timeout, in seconds (raled accepts 1 to 3600).
keep_alive_timeout == 2

(***************************************************************************)
(* The cluster registry built by raled.                                    *)
(***************************************************************************)
\* cluster_add_node(1 | 2 | 3, ..., "127.0.0.1", 5001 | 5002 | 5003, ...)
Nodes == {1, 2, 3}
\* cluster.nodes[] in insertion order: index i holds id nodes[i + 1].
nodes == <<1, 2, 3>>
node_count == Len(nodes)
MAX_NODES == 10
TCP_SERVER_MAX_CLIENTS == 5
TCP_SERVER_BUFFER_SIZE == 1024
HASH_SIZE == 1024
MAX_KEY_SIZE == 255
MAX_VALUE_SIZE == 1024
\* The node whose process the single-node specifications follow.
Self == 1
\* The UDP port a node's RALE socket is bound to (all on one host).
rale_port(n) == 5000 + n

\* find_node_index_by_id: the 0-based index of the node with this id, or
\* MAX_NODES when the registry has none.
find_node_index_by_id(id) ==
    IF \E i \in 1..node_count : nodes[i] = id
    THEN (CHOOSE i \in 1..node_count : nodes[i] = id) - 1
    ELSE MAX_NODES

VARIABLES
    current_rale_state,    \* [n]: current_term, voted_for, leader_id, role
    votes_received,        \* [n]: static int votes_received
    election_active,       \* [n]: static int election_active
    pc,                    \* [n]: position in rale_quram_process
    rale_state,            \* [n]: the file <db.path>/rale.state
    hash_table,            \* [n]: global_cluster_db.hash_table
    rale_db,               \* [n]: the file <db.path>/rale.db, a list of lines
    connection_status,     \* [n][idx]: connection_status[idx]
    client_socket_to_node, \* [n][slot]: client_socket_to_node[slot]
    tcp_clients,           \* [n][idx]: tcp_clients[idx]
    net,                   \* datagrams sendto() has put on the wire
    tcp_sent,              \* [n]: lines handed to tcp_client_send/tcp_server_send
    vote_grants,           \* [n]: history of the VOTE_GRANTED replies n built
    shutdown_requested,    \* [n][s]: <s>_shutdown_requested, s a subsystem
    system_exit,           \* [n]: volatile int system_exit
    wait_pc,               \* [n]: the caller of librale_wait_for_shutdown_completion
    wait_result,           \* [n]: what that call returned
    completions,           \* [n][s]: calls of librale_signal_shutdown_complete(s)
    server_loop,           \* [n]: the thread in dstore_server_loop
    cluster,               \* cluster_t cluster of the process at node Self
    cluster_initialized,   \* static bool cluster_initialized
    cluster_state_file,    \* static char cluster_state_file[512]
    state_file,            \* the file cluster_state_file names
    rale_last_error,       \* rale_last_error.error_code
    registry_call,         \* the last call on the registry and its result
    hash_source,           \* a hash_table_t that hash_put filled
    hash_file,             \* the file hash_save writes and hash_load reads
    hash_target,           \* the hash_table_t that hash_load fills
    hash_mutex,            \* hash_target's mutex
    hash_call,             \* the last call on the two tables and how it ended
    now,                   \* time(NULL), in seconds since the processes started
    last_heartbeat,        \* [n]: current_rale_state.last_heartbeat
    election_deadline,     \* [n]: current_rale_state.election_deadline
    granted_at,            \* [n]: when n last granted a vote or adopted the
                           \*      term of a VOTE_REQUEST; -1 before
    delete_links,          \* DELETE and FORWARD_DELETE lines written to a
                           \*      peer's server and not yet read by it
    delete_messages,       \* how many such lines the nodes have written
    delete_command,        \* the DELETE a client gave: [node, leader]
    client_writes,         \* the messages given to tcp_client_send, in order
    socket_bytes,          \* the bytes sent and not yet read by the server
    recv_buf,              \* recv_buf[slot] of tcp_server_run
    on_receive_lines,      \* the lines tcp_server_run gave to on_receive
    last_keep_alive_check, \* static time_t last_keep_alive_check of
                           \*      dstore_server_tick at node 1
    last_keep_alive_sent,  \* [idx]: last_keep_alive_sent[idx] at node 1
    keep_alive_log,        \* the KEEP_ALIVE lines node 1 sent: [at, via, to]
    last_connect_attempt,  \* static time_t last_connect_attempt of
                           \*      dstore_client_tick
    last_connection_attempt,  \* last_connection_attempt[i], i one peer
    connection_attempt_count, \* connection_attempt_count[i]
    is_connected,          \* tcp_clients[i]->is_connected
    connect_calls,         \* how often tcp_client_connect was called for i
    first_run              \* static int first_run of dstore_client_tick

\* The variables of the shutdown coordination (shutdown.c).
shutdown_vars == <<shutdown_requested, system_exit, wait_pc, wait_result,
                   completions, server_loop>>

\* The variables of the membership registry (cluster.c).
registry_vars == <<cluster, cluster_initialized, cluster_state_file, state_file,
                   rale_last_error, registry_call>>

\* The clock and the timers of the RALE module (rale_proto.c).
timer_vars == <<now, last_heartbeat, election_deadline, granted_at>>

\* The variables of a table's save and load (hash.c).
hash_vars == <<hash_source, hash_file, hash_target, hash_mutex, hash_call>>

\* The DStore lines between the nodes' clients and servers (dstore.c).
link_vars == <<delete_links, delete_messages, delete_command>>

\* One connection from a TCP client to a TCP server (tcp_client.c,
\* tcp_server.c).
wire_vars == <<client_writes, socket_bytes, recv_buf, on_receive_lines>>

\* The variables of the other parts of the DStore module.
\* The keep-alive bookkeeping of dstore_server_tick (dstore.c).
keepalive_vars == <<last_keep_alive_check, last_keep_alive_sent, keep_alive_log>>

\* The connection attempts of dstore_client_tick to one peer (dstore.c).
backoff_vars == <<last_connect_attempt, last_connection_attempt,
                  connection_attempt_count, is_connected, connect_calls,
                  first_run>>

more_vars == <<wire_vars, keepalive_vars, backoff_vars>>

\* The variables outside the main loop, which the steps of the loop leave
\* alone.
aside == <<shutdown_vars, registry_vars, hash_vars, timer_vars, link_vars,
           more_vars>>

\* The variables of the main loop.
loop_vars == <<current_rale_state, votes_received, election_active, pc,
               rale_state, hash_table, rale_db, connection_status,
               client_socket_to_node, tcp_clients, net, tcp_sent, vote_grants>>

vars == <<loop_vars, aside>>

(***************************************************************************)
(* Strings.                                                                *)
(***************************************************************************)
\* "%d" of a small non-negative integer, as character codes.
Digits(i) == IF i < 10 THEN <<48 + i>> ELSE <<48 + (i \div 10), 48 + (i % 10)>>
\* "rale_leader_term_"
RALE_LEADER_TERM == <<114, 97, 108, 101, 95, 108, 101, 97, 100, 101, 114, 95,
                      116, 101, 114, 109, 95>>
\* The keys and values that clients write: "a", "azx"; "1", "22".
Keys == {<<97>>, <<97, 122, 120>>}
Values == {<<49>>, <<50, 50>>}

(***************************************************************************)
(* hash.c.  Both hash functions reduce an unsigned int modulo HASH_SIZE,   *)
(* and HASH_SIZE divides 2^32, so reducing after every character gives the *)
(* same bucket as reducing the wrapped 32-bit value at the end.            *)
(***************************************************************************)
RECURSIVE hash_func_from(_, _)
hash_func_from(h, key) ==
    IF key = <<>> THEN h
    ELSE hash_func_from((h * 33 + Head(key)) % HASH_SIZE, Tail(key))

\* hash_func: djb2, used by hash_get.
hash_func(key) == hash_func_from(5381 % HASH_SIZE, key)

RECURSIVE hash_from(_, _)
hash_from(h, key) ==
    IF key = <<>> THEN h
    ELSE hash_from((h * 32 + Head(key)) % HASH_SIZE, Tail(key))

\* hash: shift-add, used by hash_put and hash_delete.
hash(key) == hash_from(0, key)

\* A hash table is [init, entries]: init is FALSE for the NULL pointer;
\* entries maps each non-empty bucket to its chain, newest entry first.
NullTable == [init |-> FALSE, entries |-> <<>>]
EmptyTable == [init |-> TRUE, entries |-> <<>>]

Chain(table, b) == IF b \in DOMAIN table.entries THEN table.entries[b] ELSE <<>>

\* hash_put: 0 and the new table, or -1 and the table unchanged.
hash_put_ok(table, key, value) ==
    /\ table.init
    /\ Len(key) < MAX_KEY_SIZE
    /\ Len(value) < MAX_VALUE_SIZE

hash_put(table, key, value) ==
    IF ~hash_put_ok(table, key, value) THEN table
    ELSE LET index == hash(key)
             chain == Chain(table, index)
             new == IF \E i \in 1..Len(chain) : chain[i].key = key
                    THEN [i \in 1..Len(chain) |->
                            IF chain[i].key = key
                            THEN [key |-> key, value |-> value]
                            ELSE chain[i]]
                    ELSE <<[key |-> key, value |-> value]>> \o chain
         IN [table EXCEPT !.entries =
                [b \in DOMAIN table.entries \cup {index} |->
                    IF b = index THEN new ELSE table.entries[b]]]

\* hash_get: the value found for key, or NotFound (return -1).
NotFound == <<-1>>
hash_get(table, key) ==
    IF ~table.init THEN NotFound
    ELSE LET chain == Chain(table, hash_func(key))
         IN IF \E i \in 1..Len(chain) : chain[i].key = key
            THEN chain[CHOOSE i \in 1..Len(chain) : chain[i].key = key].value
            ELSE NotFound

\* hash_delete: unlinks the first entry of bucket hash(key) whose key is
\* key; -1 and the table unchanged when there is none.
hash_delete(table, key) ==
    IF ~table.init THEN table
    ELSE LET index == hash(key)
             chain == Chain(table, index)
         IN IF ~\E i \in 1..Len(chain) : chain[i].key = key THEN table
            ELSE LET at == CHOOSE i \in 1..Len(chain) :
                               /\ chain[i].key = key
                               /\ \A j \in 1..(i - 1) : chain[j].key # key
                     rest == SubSeq(chain, 1, at - 1)
                                 \o SubSeq(chain, at + 1, Len(chain))
                 IN [table EXCEPT !.entries =
                        [b \in IF rest = <<>> THEN DOMAIN table.entries \ {index}
                                ELSE DOMAIN table.entries |->
                            IF b = index THEN rest ELSE table.entries[b]]]

\* db.c: db_insert ignores what hash_put returns; db_get is hash_get;
\* db_delete ignores what hash_delete returns.
db_insert(table, key, value) == hash_put(table, key, value)
db_get(table, key) == hash_get(table, key)
db_delete(table, key) == hash_delete(table, key)

(***************************************************************************)
(* hash_load.  A file is a sequence of bytes, read from offset pos.  The   *)
(* loader's two buffers, key and value, are each [len, str, set]: the      *)
(* length last read, the string the buffer holds, and whether the buffer   *)
(* has been written.                                                       *)
(***************************************************************************)
\* The four bytes at pos as a little-endian int; Wraps: the value is
\* negative as an int, at least 2^31 as the low half of a size_t.
Int32(bytes, pos) ==
    bytes[pos + 1] + 256 * bytes[pos + 2] + 65536 * bytes[pos + 3]
        + 16777216 * (bytes[pos + 4] % 128)
Wraps(bytes, pos) == bytes[pos + 4] >= 128

\* The C string an array of bytes holds: the bytes before the first NUL.
CStr(b) ==
    IF \E i \in 1..Len(b) : b[i] = 0
    THEN SubSeq(b, 1, (CHOOSE i \in 1..Len(b) :
                           b[i] = 0 /\ \A j \in 1..(i - 1) : b[j] # 0) - 1)
    ELSE b

Prefix(str, len) == SubSeq(str, 1, IF Len(str) < len THEN Len(str) ELSE len)

FreshBuffer == [len |-> 0, str |-> <<>>, set |-> FALSE]

\* fread(&len, sizeof(int), 1, file); fread(buf, len, 1, file);
\* buf[len] = '\0', with buf of size max.  A read at end of file leaves its
\* target as it was.  ub: a partial element was read (its value is
\* indeterminate), buf[len] is outside buf, or a buffer never written is
\* read as a string.
read_field(bytes, pos, f, maxsize) ==
    LET avail == Len(bytes) - pos
        p1 == IF avail >= 4 THEN pos + 4 ELSE pos
        avail1 == Len(bytes) - p1
        len == IF avail >= 4 THEN Int32(bytes, pos) ELSE f.len
    IN IF avail > 0 /\ avail < 4 THEN [ub |-> TRUE, pos |-> pos, f |-> f]
       ELSE IF (avail >= 4 /\ Wraps(bytes, pos)) \/ len >= maxsize
       THEN [ub |-> TRUE, pos |-> p1, f |-> f]
       ELSE IF len = 0
       THEN [ub |-> FALSE, pos |-> p1,
             f |-> [len |-> 0, str |-> <<>>, set |-> TRUE]]
       ELSE IF avail1 >= len
       THEN [ub |-> FALSE, pos |-> p1 + len,
             f |-> [len |-> len, str |-> CStr(SubSeq(bytes, p1 + 1, p1 + len)),
                    set |-> TRUE]]
       ELSE IF avail1 > 0 \/ ~f.set THEN [ub |-> TRUE, pos |-> p1, f |-> f]
       ELSE [ub |-> FALSE, pos |-> p1,
             f |-> [len |-> len, str |-> Prefix(f.str, len), set |-> TRUE]]

\* The loop of hash_load from entry i on.  Once the file is at its end an
\* iteration reads nothing, and every later iteration repeats its hash_put.
RECURSIVE load_entries(_, _, _, _, _, _, _)
load_entries(table, bytes, pos, i, num_entries, key, value) ==
    IF i >= num_entries THEN [table |-> table, ub |-> FALSE]
    ELSE LET k == read_field(bytes, pos, key, MAX_KEY_SIZE)
             v == read_field(bytes, k.pos, value, MAX_VALUE_SIZE)
         IN IF k.ub \/ v.ub THEN [table |-> table, ub |-> TRUE]
            ELSE IF pos >= Len(bytes)
            THEN [table |-> hash_put(table, k.f.str, v.f.str), ub |-> FALSE]
            ELSE load_entries(hash_put(table, k.f.str, v.f.str), bytes, v.pos,
                              i + 1, num_entries, k.f, v.f)

\* hash_load(table, file): -1 and the table unchanged when the entry count
\* cannot be read.
hash_load(table, bytes) ==
    IF Len(bytes) < 4 \/ Wraps(bytes, 0) THEN [table |-> table, ub |-> FALSE]
    ELSE load_entries(table, bytes, 4, 0, Int32(bytes, 0), FreshBuffer, FreshBuffer)

\* hash_load calls hash_put while it holds table->mutex, and hash_put
\* locks table->mutex: the loop's first iteration that reaches hash_put
\* locks a mutex that its own thread holds.
hash_load_relocks(bytes) ==
    /\ Len(bytes) >= 4
    /\ ~Wraps(bytes, 0)
    /\ Int32(bytes, 0) >= 1
    /\ LET k == read_field(bytes, 4, FreshBuffer, MAX_KEY_SIZE)
           v == read_field(bytes, k.pos, FreshBuffer, MAX_VALUE_SIZE)
       IN ~k.ub /\ ~v.ub

(***************************************************************************)
(* hash_save.  fwrite(&key_len, sizeof(int), 1, file) writes the first     *)
(* four bytes of a size_t, on a little-endian machine its low half.        *)
(***************************************************************************)
Int32Bytes(i) ==
    <<i % 256, (i \div 256) % 256, (i \div 65536) % 256, (i \div 16777216) % 256>>

RECURSIVE chain_bytes(_)
chain_bytes(chain) ==
    IF chain = <<>> THEN <<>>
    ELSE Int32Bytes(Len(Head(chain).key)) \o Head(chain).key
         \o Int32Bytes(Len(Head(chain).value)) \o Head(chain).value
         \o chain_bytes(Tail(chain))

\* The loop over bucket = 0 .. HASH_SIZE - 1, from the buckets in todo on:
\* an empty bucket adds nothing.
RECURSIVE bucket_bytes(_, _)
bucket_bytes(table, todo) ==
    IF todo = {} THEN <<>>
    ELSE LET bucket == CHOOSE b \in todo : \A c \in todo : b <= c
         IN chain_bytes(Chain(table, bucket)) \o bucket_bytes(table, todo \ {bucket})

RECURSIVE count_entries(_, _)
count_entries(table, todo) ==
    IF todo = {} THEN 0
    ELSE LET bucket == CHOOSE b \in todo : TRUE
         IN Len(Chain(table, bucket)) + count_entries(table, todo \ {bucket})

\* The bytes hash_save writes: the number of entries, then every entry in
\* bucket order and, within a bucket, in chain order.
hash_save(table) ==
    Int32Bytes(count_entries(table, DOMAIN table.entries))
        \o bucket_bytes(table, DOMAIN table.entries)

\* rale.db as bytes: the lines dstore_save_to_rale_db appended, each with
\* its newline.
RECURSIVE FileBytes(_)
FileBytes(journal) ==
    IF journal = <<>> THEN <<>>
    ELSE Head(journal) \o <<10>> \o FileBytes(Tail(journal))

(***************************************************************************)
(* One node's state, as the handlers see it.  A handler is an operator     *)
(* from the node's state w to its state when the handler returns:          *)
(*   self     rale_config.node.id = cluster.self_id                        *)
(*   state    current_rale_state      votes    votes_received              *)
(*   active   election_active         file     rale.state                  *)
(*   table    the hash table          journal  rale.db                     *)
(*   status   connection_status[]     slots    client_socket_to_node[]     *)
(*   clients  tcp_clients[]           wire     datagrams sendto() sent     *)
(*   out      TCP lines sent          grants   VOTE_GRANTED replies built  *)
(***************************************************************************)

(***************************************************************************)
(* rale.state: "%d %d %d %d %d\n", or no file.                             *)
(***************************************************************************)
NoFile == [present |-> FALSE, current_term |-> -1, voted_for |-> -1,
           leader_id |-> -1, last_log_index |-> -1, last_log_term |-> -1]

NonNeg(x, default) == IF x >= 0 THEN x ELSE default

\* write_rale_state_leader: reads the five fields (each -1 when there is no
\* file), overwrites the term when term >= 0 and the leader always, and
\* writes the line back.
write_rale_state_leader(w, term, leader_id) ==
    LET current_term == IF term >= 0 THEN term ELSE w.file.current_term
    IN [w EXCEPT !.file =
            [present |-> TRUE,
             current_term |-> NonNeg(current_term, 0),
             voted_for |-> NonNeg(w.file.voted_for, -1),
             leader_id |-> leader_id,
             last_log_index |-> NonNeg(w.file.last_log_index, 0),
             last_log_term |-> NonNeg(w.file.last_log_term, 0)]]

\* The parse shared by dstore_is_current_leader and
\* dstore_get_current_leader: the file is there and no field is negative.
rale_state_readable(w) ==
    /\ w.file.present
    /\ w.file.current_term >= 0
    /\ w.file.voted_for >= 0
    /\ w.file.leader_id >= 0
    /\ w.file.last_log_index >= 0
    /\ w.file.last_log_term >= 0

dstore_is_current_leader(w) ==
    rale_state_readable(w) /\ w.file.leader_id = w.self

dstore_get_current_leader(w) ==
    IF rale_state_readable(w) THEN w.file.leader_id ELSE -1

(***************************************************************************)
(* TCP.  A client is "NULL", "idle" (created, not connected) or            *)
(* "connected".                                                            *)
(***************************************************************************)
\* tcp_client_init: NULL when a pointer argument is NULL, errbuf included.
tcp_client_init(ip_address, on_receive, on_disconnection, errbuf) ==
    IF ~ip_address \/ ~on_receive \/ ~on_disconnection \/ ~errbuf
    THEN "NULL" ELSE "idle"

\* dstore_init_client as it would be with a buffer passed for errbuf.
dstore_init_client_with_errbuf(w, idx) ==
    IF idx >= MAX_NODES \/ idx >= node_count \/ w.clients[idx] # "NULL" THEN w
    ELSE [w EXCEPT !.clients[idx] = tcp_client_init(TRUE, TRUE, TRUE, TRUE)]

\* dstore_init_client(node_idx): passes NULL for errbuf.
dstore_init_client(w, idx) ==
    IF idx >= MAX_NODES \/ idx >= node_count \/ w.clients[idx] # "NULL" THEN w
    ELSE [w EXCEPT !.clients[idx] = tcp_client_init(TRUE, TRUE, TRUE, FALSE)]

\* Commands are lines "<verb> ...": PUT and FORWARD_PUT carry key=value,
\* LEADER and LEADER_ELECTED carry term and id, HELLO carries id.
Command(verb, key, value, term, id) ==
    [verb |-> verb, key |-> key, value |-> value, term |-> term, id |-> id]

\* tcp_client_send(tcp_clients[idx], line)
tcp_client_send(w, idx, line) ==
    [w EXCEPT !.out = @ \cup {[via |-> "client", to |-> idx, line |-> line]}]

\* tcp_server_send(tcp_server_ptr, slot, line)
tcp_server_send(w, slot, line) ==
    [w EXCEPT !.out = @ \cup {[via |-> "server", to |-> slot, line |-> line]}]

\* dstore_send_message: 0 and the line sent, or -1.
dstore_send_message(w, idx, line) ==
    IF idx < node_count /\ w.clients[idx] = "connected"
    THEN tcp_client_send(w, idx, line)
    ELSE w

\* dstore_replicate_to_followers, from index i on: "PUT key=value" to every
\* index other than self_id whose client exists and is connected.
RECURSIVE replicate_from(_, _, _)
replicate_from(w, i, line) ==
    IF i >= node_count THEN w
    ELSE IF i = w.self THEN replicate_from(w, i + 1, line)
    ELSE LET w1 == IF w.clients[i] = "NULL" THEN dstore_init_client(w, i) ELSE w
             w2 == IF w1.clients[i] = "connected"
                   THEN dstore_send_message(w1, i, line) ELSE w1
         IN replicate_from(w2, i + 1, line)

dstore_replicate_to_followers(w, key, value) ==
    replicate_from(w, 0, Command("PUT", key, value, -1, -1))

\* dstore_broadcast_leader_snapshot: "LEADER <term> <leader_id>" to every
\* server slot mapped to a node and to every connected client.
RECURSIVE broadcast_slots(_, _, _)
broadcast_slots(w, i, line) ==
    IF i >= TCP_SERVER_MAX_CLIENTS THEN w
    ELSE broadcast_slots(IF w.slots[i] # -1 THEN tcp_server_send(w, i, line) ELSE w,
                         i + 1, line)

RECURSIVE broadcast_clients(_, _, _)
broadcast_clients(w, i, line) ==
    IF i >= node_count THEN w
    ELSE broadcast_clients(IF w.clients[i] = "connected"
                           THEN tcp_client_send(w, i, line) ELSE w,
                           i + 1, line)

dstore_broadcast_leader_snapshot(w, term, leader_id) ==
    LET line == Command("LEADER", <<>>, <<>>, NonNeg(term, 0), leader_id)
    IN broadcast_clients(broadcast_slots(w, 0, line), 0, line)

\* dstore_save_to_rale_db: appends "key=value\n" to rale.db.
dstore_save_to_rale_db(w, key, value) ==
    [w EXCEPT !.journal = Append(@, key \o <<61>> \o value)]

\* The part of dstore_put_from_command after the command is known to be a
\* PUT with a key and a value of accepted lengths.
dstore_put_not_leader(w, key, value) ==
    LET current_leader == dstore_get_current_leader(w)
        leader_idx == find_node_index_by_id(current_leader)
    IN IF /\ current_leader # -1
          /\ current_leader # w.self
          /\ leader_idx # MAX_NODES
          /\ w.status[leader_idx] = 1
       THEN dstore_send_message(w, leader_idx,
                                Command("FORWARD_PUT", key, value, -1, -1))
       ELSE w

dstore_put_leader(w, key, value) ==
    dstore_replicate_to_followers(
        dstore_save_to_rale_db(
            [w EXCEPT !.table = db_insert(@, key, value)], key, value),
        key, value)

\* dstore_put_from_command(command)
dstore_put_from_command(w, c) ==
    IF node_count = 0 THEN w
    ELSE IF c.verb = "LEADER_ELECTED"
    THEN IF c.term >= 0 /\ c.id >= 0
         THEN dstore_broadcast_leader_snapshot(
                  write_rale_state_leader(
                      [w EXCEPT !.table = db_insert(@, RALE_LEADER_TERM \o Digits(c.term),
                                                    Digits(c.id))],
                      c.term, c.id),
                  c.term, c.id)
         ELSE w
    ELSE IF c.verb = "LEADER"
    THEN IF c.term >= 0 /\ c.id >= 0
         THEN write_rale_state_leader(w, c.term, c.id)
         ELSE w
    \* FORWARD_PUT: key and value are parsed, then control falls through to
    \* the test that the line starts with "PUT ".
    ELSE IF c.verb = "FORWARD_PUT"
            /\ (Len(c.key) = 0 \/ Len(c.key) >= MAX_KEY_SIZE
                \/ Len(c.value) >= MAX_VALUE_SIZE)
    THEN w
    ELSE IF c.verb # "PUT" THEN w
    ELSE IF Len(c.key) = 0 \/ Len(c.key) >= MAX_KEY_SIZE THEN w
    ELSE IF Len(c.value) >= MAX_VALUE_SIZE THEN w
    ELSE IF ~dstore_is_current_leader(w)
    THEN dstore_put_not_leader(w, c.key, c.value)
    ELSE dstore_put_leader(w, c.key, c.value)

(***************************************************************************)
(* rale_proto.c                                                            *)
(***************************************************************************)
\* A RALE datagram: "<type> <id> <term>"; term is -1 when the text carries
\* no term.  late is read only by ELECTION_TIMEOUT: whether more than
\* keep_alive_timeout seconds have passed since last_heartbeat.
Datagram(type, id, term, late) ==
    [type |-> type, id |-> id, term |-> term, late |-> late]

\* bind(INADDR_ANY, port) fails while a socket of this host is bound to the
\* port: every node's RALE socket is, on the one host the registry names.
PortInUse(port) == \E n \in Nodes : rale_port(n) = port

\* udp_client_init(port): NULL when the bind fails.
udp_client_init(port) == IF PortInUse(port) THEN "NULL" ELSE "conn"

\* rale_send_message: a new socket bound to the TARGET port sends the
\* datagram; nothing is sent when udp_client_init returns NULL.
rale_send_message(w, message, target_port) ==
    IF udp_client_init(target_port) = "NULL" THEN w
    ELSE [w EXCEPT !.wire = @ \cup {[message |-> message, port |-> target_port]}]

\* The port a reply goes to is the source port of the datagram answered.  A
\* datagram that a peer's rale_send_message sent left from a socket bound to
\* the port it was sent to, which is the receiver's own port.
sender_port(w) == rale_port(w.self)

rale_state_save(w) ==
    [w EXCEPT !.file = [present |-> TRUE,
                        current_term |-> w.state.current_term,
                        voted_for |-> w.state.voted_for,
                        leader_id |-> w.state.leader_id,
                        last_log_index |-> w.state.last_log_index,
                        last_log_term |-> w.state.last_log_term]]

\* rale_state_load: with a file, every field that is >= 0 replaces the
\* field in memory.
rale_state_load(state, file) ==
    IF ~file.present THEN state
    ELSE [state EXCEPT
            !.current_term = NonNeg(file.current_term, @),
            !.voted_for = NonNeg(file.voted_for, @),
            !.leader_id = NonNeg(file.leader_id, @),
            !.last_log_index = NonNeg(file.last_log_index, @),
            !.last_log_term = NonNeg(file.last_log_term, @)]

\* The state rale_proto_init sets before it loads the file.
InitialState ==
    [current_term |-> 0, voted_for |-> -1, leader_id |-> -1,
     role |-> "follower", last_log_index |-> 0, last_log_term |-> 0]

rale_note_leader(w, leader_id) ==
    IF leader_id >= 0 /\ leader_id # w.state.leader_id
    THEN rale_state_save([w EXCEPT !.state.leader_id = leader_id])
    ELSE w

rale_become_leader(w) ==
    LET w1 == rale_state_save([w EXCEPT !.state.role = "leader",
                                        !.state.leader_id = w.self,
                                        !.active = 0,
                                        !.votes = 0])
    IN dstore_put_from_command(w1,
           Command("LEADER_ELECTED", <<>>, <<>>,
                   w1.state.current_term, w1.state.leader_id))

rale_become_follower(w, known_leader) ==
    LET w1 == [w EXCEPT !.state.role = "follower"]
        w2 == IF known_leader >= 0 THEN rale_note_leader(w1, known_leader) ELSE w1
    IN rale_state_save([w2 EXCEPT !.active = 0, !.votes = 0])

\* The loop of rale_request_votes and rale_send_heartbeat: the datagram to
\* every registered node but self, from index i on.
RECURSIVE send_to_peers(_, _, _)
send_to_peers(w, i, message) ==
    IF i > node_count THEN w
    ELSE send_to_peers(IF nodes[i] = w.self THEN w
                       ELSE rale_send_message(w, message, rale_port(nodes[i])),
                       i + 1, message)

rale_send_heartbeat(w) ==
    send_to_peers(w, 1, Datagram("HEARTBEAT", w.self, w.state.current_term, FALSE))

rale_request_votes(w) ==
    send_to_peers(w, 1, Datagram("VOTE_REQUEST", w.self, w.state.current_term, FALSE))

rale_start_election(w) ==
    rale_request_votes(
        rale_state_save([w EXCEPT !.state.current_term = @ + 1,
                                  !.state.voted_for = w.self,
                                  !.state.role = "candidate",
                                  !.active = 1,
                                  !.votes = 1]))

\* A variant of vote_request_adopt_term that keeps the vote of the old term.
vote_request_adopt_term_keeping_vote(w, candidate_term) ==
    rale_become_follower([w EXCEPT !.state.current_term = candidate_term], -1)

\* VOTE_REQUEST with a term above current_term: adopt the term, forget the
\* vote, become follower.
vote_request_adopt_term(w, candidate_term) ==
    rale_become_follower([w EXCEPT !.state.current_term = candidate_term,
                                   !.state.voted_for = -1], -1)

\* The grant rule of the VOTE_REQUEST branch.
vote_request_grant(w, candidate_id) ==
    IF w.state.role # "leader"
       /\ (w.state.voted_for = -1 \/ w.state.voted_for = candidate_id)
    THEN LET w1 == rale_state_save([w EXCEPT !.state.voted_for = candidate_id])
             w2 == [w1 EXCEPT !.grants = @ \cup {<<candidate_id, w1.state.current_term>>}]
         IN rale_send_message(w2,
                Datagram("VOTE_GRANTED", w.self, w2.state.current_term, FALSE),
                sender_port(w))
    ELSE w

handle_vote_request(w, m) ==
    IF m.term # -1 /\ m.term < w.state.current_term
    THEN rale_send_message(w,
             Datagram("VOTE_DENIED", w.self, w.state.current_term, FALSE),
             sender_port(w))
    ELSE vote_request_grant(
             IF m.term > w.state.current_term
             THEN vote_request_adopt_term(w, m.term) ELSE w,
             m.id)

\* The HEARTBEAT branch; it also takes "HEARTBEAT_ACK", whose tenth
\* character is not a space, so that nothing is parsed from it.
handle_heartbeat(w, m) ==
    LET w1 == IF m.type = "HEARTBEAT" /\ m.term > w.state.current_term
              THEN [w EXCEPT !.state.current_term = m.term,
                             !.state.voted_for = -1]
              ELSE w
        w2 == IF m.type = "HEARTBEAT" /\ m.id >= 0
              THEN rale_become_follower(w1, m.id) ELSE w1
    IN rale_send_message(w2, Datagram("HEARTBEAT_ACK", -1, -1, FALSE),
                         sender_port(w))

\* The VOTE_GRANTED branch: the voter id is parsed and not used.
handle_vote_granted(w, m) ==
    IF w.active = 0 THEN w
    ELSE IF m.term > w.state.current_term THEN w
    ELSE LET w1 == [w EXCEPT !.votes = @ + 1]
         IN IF w1.votes > node_count \div 2 THEN rale_become_leader(w1) ELSE w1

\* The ELECTION_TIMEOUT branch.
handle_election_timeout(w, m) ==
    IF m.late
    THEN rale_request_votes(
             rale_state_save([w EXCEPT !.state.role = "candidate",
                                       !.state.current_term = @ + 1,
                                       !.state.voted_for = w.self,
                                       !.votes = 1,
                                       !.active = 1]))
    ELSE w

rale_handle_message(w, m) ==
    IF m.type = "VOTE_REQUEST" THEN handle_vote_request(w, m)
    ELSE IF m.type \in {"HEARTBEAT", "HEARTBEAT_ACK"} THEN handle_heartbeat(w, m)
    ELSE IF m.type = "VOTE_GRANTED" THEN handle_vote_granted(w, m)
    ELSE IF m.type = "ELECTION_TIMEOUT" THEN handle_election_timeout(w, m)
    ELSE w

\* The duties rale_quram_process runs after the poll.  expired: whether the
\* timer the role reads has run out (election_deadline for a candidate,
\* last_heartbeat + keep_alive_timeout for a follower).  A leader sends the
\* heartbeat; a candidate repeats its requests.
rale_handle_duties(w, expired) ==
    IF w.state.role = "leader" THEN rale_send_heartbeat(w)
    ELSE IF w.state.role = "candidate"
    THEN LET w1 == rale_request_votes(w)
         IN IF expired THEN rale_start_election(w1) ELSE w1
    ELSE IF expired
    THEN rale_start_election([w EXCEPT !.state.role = "candidate"])
    ELSE w

(***************************************************************************)
(* The state machine.                                                      *)
(***************************************************************************)
World(n) ==
    [self |-> n,
     state |-> current_rale_state[n],
     votes |-> votes_received[n],
     active |-> election_active[n],
     file |-> rale_state[n],
     table |-> hash_table[n],
     journal |-> rale_db[n],
     status |-> connection_status[n],
     slots |-> client_socket_to_node[n],
     clients |-> tcp_clients[n],
     wire |-> {},
     out |-> tcp_sent[n],
     grants |-> vote_grants[n]]

\* Node n's state becomes w.
LoopCommit(n, w) ==
    /\ current_rale_state' = [current_rale_state EXCEPT ![n] = w.state]
    /\ votes_received' = [votes_received EXCEPT ![n] = w.votes]
    /\ election_active' = [election_active EXCEPT ![n] = w.active]
    /\ rale_state' = [rale_state EXCEPT ![n] = w.file]
    /\ hash_table' = [hash_table EXCEPT ![n] = w.table]
    /\ rale_db' = [rale_db EXCEPT ![n] = w.journal]
    /\ connection_status' = [connection_status EXCEPT ![n] = w.status]
    /\ client_socket_to_node' = [client_socket_to_node EXCEPT ![n] = w.slots]
    /\ tcp_clients' = [tcp_clients EXCEPT ![n] = w.clients]
    /\ net' = net \cup w.wire
    /\ tcp_sent' = [tcp_sent EXCEPT ![n] = w.out]
    /\ vote_grants' = [vote_grants EXCEPT ![n] = w.grants]

Commit(n, w) == LoopCommit(n, w) /\ UNCHANGED aside

\* dstore_init: every node disconnected, every server slot unused; no
\* client has been created.
\* Of the MAX_NODES entries of connection_status and tcp_clients, the model
\* keeps those of the registered nodes, the only ones read after dstore_init.
NoConnections == [i \in 0..(node_count - 1) |-> 0]
NoSlots == [i \in 0..(TCP_SERVER_MAX_CLIENTS - 1) |-> -1]
NoClients == [i \in 0..(node_count - 1) |-> "NULL"]

(***************************************************************************)
(* cluster.c: the membership registry of one process.  An operation is an  *)
(* operator from r to r when the operation returns: r.cluster is the       *)
(* global cluster, r.initialized is cluster_initialized, r.path is         *)
(* cluster_state_file, r.file is the state file on disk, r.error is        *)
(* rale_last_error.error_code, r.ret is the status returned, and r.room is *)
(* how many lines the disk takes from the next cluster_save_state (its     *)
(* fputs and fclose results are not looked at), -1 when the file cannot be *)
(* opened for writing.                                                     *)
(***************************************************************************)
RALE_SUCCESS == 0
RALE_ERROR_GENERAL == -1
RALE_ERROR_INVALID_CONFIG == 101
RALE_ERROR_NOT_INITIALIZED == 106
RALE_ERROR_INVALID_NODE_ID == 302
RALE_ERROR_INVALID_PARAMETER == 601
MAX_REASONABLE_NODE_ID == 1000
MAX_REASONABLE_PORT == 65535
MAX_REASONABLE_NAME_LEN == 256
MAX_REASONABLE_IP_LEN == 46
NAME_MAX == 255
IP_ADDR_MAX == 64

\* snprintf("%d") of an int.
RECURSIVE itoa_digits(_)
itoa_digits(i) ==
    IF i < 10 THEN <<48 + i>> ELSE Append(itoa_digits(i \div 10), 48 + (i % 10))

itoa(i) == IF i < 0 THEN <<45>> \o itoa_digits(-i) ELSE itoa_digits(i)

isdigit(c) == c \in 48..57

\* atoi: blanks, an optional sign, then digits up to the first other
\* character; 0 when there is no digit.
RECURSIVE atoi_digits(_, _)
atoi_digits(s, acc) ==
    IF s = <<>> \/ ~isdigit(Head(s)) THEN acc
    ELSE atoi_digits(Tail(s), 10 * acc + (Head(s) - 48))

RECURSIVE atoi(_)
atoi(s) ==
    IF s = <<>> THEN 0
    ELSE IF Head(s) = 32 THEN atoi(Tail(s))
    ELSE IF Head(s) = 45 THEN -atoi_digits(Tail(s), 0)
    ELSE IF Head(s) = 43 THEN atoi_digits(Tail(s), 0)
    ELSE atoi_digits(s, 0)

\* (uint16_t) of an int.
uint16(i) == i % 65536

\* A slot of cluster.nodes[]; memset(&cluster, 0, ...) leaves every slot so.
ZeroSlot == [id |-> 0, name |-> <<>>, ip |-> <<>>, rale_port |-> 0, dstore_port |-> 0]

\* The cluster after memset(&cluster, 0, sizeof(cluster_t)).
ZeroCluster == [nodes |-> [i \in 0..(MAX_NODES - 1) |-> ZeroSlot],
                node_count |-> 0, self_id |-> 0]

\* No state file on disk.
NoStateFile == [exists |-> FALSE, lines |-> <<>>]

\* A line "key=value" of the state file: key.field with key.idx the i of
\* "node[i].", -1 for "self_id" and "node_count".
StateLine(idx, field, value) == [idx |-> idx, field |-> field, value |-> value]

\* The five lines cluster_save_state writes for slot i.  (A line is at most
\* 255 characters: the names of the model are short.)
slot_lines(cl, i) ==
    << StateLine(i, "id", itoa(cl.nodes[i].id)),
       StateLine(i, "name", cl.nodes[i].name),
       StateLine(i, "ip", cl.nodes[i].ip),
       StateLine(i, "rale_port", itoa(cl.nodes[i].rale_port)),
       StateLine(i, "dstore_port", itoa(cl.nodes[i].dstore_port)) >>

RECURSIVE node_lines(_, _)
node_lines(cl, i) ==
    IF i >= cl.node_count THEN <<>> ELSE slot_lines(cl, i) \o node_lines(cl, i + 1)

state_lines(cl) ==
    << StateLine(-1, "self_id", itoa(cl.self_id)),
       StateLine(-1, "node_count", itoa(cl.node_count)) >> \o node_lines(cl, 0)

\* cluster_save_state: nothing without a configured path; fopen(.., "w")
\* empties the file, and as many lines reach it as the disk takes.
cluster_save_state(r) ==
    IF r.path = "" \/ r.room < 0 THEN r
    ELSE [r EXCEPT !.file = [exists |-> TRUE,
                             lines |-> Prefix(state_lines(r.cluster), r.room)]]

\* What cluster_load_state keeps between lines.
NoPending == [node_index |-> 0, node_id |-> 0, node_name |-> <<>>, node_ip |-> <<>>,
              rale_port |-> 0]

\* The fgets loop of cluster_load_state from line k on.  A value of 256
\* characters or more is skipped; the line of dstore_port completes a node,
\* which is stored while node_index < MAX_NODES.
RECURSIVE load_lines(_, _, _, _)
load_lines(cl, lines, k, t) ==
    IF k > Len(lines) THEN cl
    ELSE LET l == lines[k]
             v == l.value
         IN IF Len(v) >= 256 THEN load_lines(cl, lines, k + 1, t)
            ELSE IF l.field = "self_id"
            THEN load_lines([cl EXCEPT !.self_id = atoi(v)], lines, k + 1, t)
            ELSE IF l.field = "node_count"
            THEN load_lines([cl EXCEPT !.node_count = atoi(v)], lines, k + 1, t)
            ELSE IF l.field = "id"
            THEN load_lines(cl, lines, k + 1, [t EXCEPT !.node_id = atoi(v)])
            ELSE IF l.field = "name"
            THEN load_lines(cl, lines, k + 1, [t EXCEPT !.node_name = v])
            ELSE IF l.field = "ip"
            THEN load_lines(cl, lines, k + 1, [t EXCEPT !.node_ip = v])
            ELSE IF l.field = "rale_port"
            THEN load_lines(cl, lines, k + 1, [t EXCEPT !.rale_port = uint16(atoi(v))])
            ELSE IF l.field = "dstore_port"
            THEN IF t.node_index < MAX_NODES
                 THEN load_lines(
                          [cl EXCEPT !.nodes[t.node_index] =
                               [id |-> t.node_id,
                                name |-> Prefix(t.node_name, NAME_MAX - 1),
                                ip |-> Prefix(t.node_ip, IP_ADDR_MAX - 1),
                                rale_port |-> t.rale_port,
                                dstore_port |-> uint16(atoi(v))]],
                          lines, k + 1, [t EXCEPT !.node_index = @ + 1])
                 ELSE load_lines(cl, lines, k + 1, t)
            ELSE load_lines(cl, lines, k + 1, t)

\* cluster_load_state: nothing without a configured path or without a file;
\* else the cluster is reset and the file read.
cluster_load_state(r) ==
    IF r.path = "" \/ ~r.file.exists THEN r
    ELSE [r EXCEPT !.cluster = load_lines([ZeroCluster EXCEPT !.self_id = -1],
                                          r.file.lines, 1, NoPending)]

cluster_init(r) ==
    IF r.initialized THEN [r EXCEPT !.ret = RALE_SUCCESS]
    ELSE [cluster_load_state([r EXCEPT !.cluster = [ZeroCluster EXCEPT !.self_id = -1],
                                       !.initialized = TRUE])
          EXCEPT !.ret = RALE_SUCCESS]

cluster_finit(r) ==
    IF r.initialized
    THEN [r EXCEPT !.cluster = ZeroCluster, !.initialized = FALSE, !.ret = RALE_SUCCESS]
    ELSE [r EXCEPT !.ret = RALE_SUCCESS]

\* rale_set_error / rale_set_error_fmt followed by return RALE_ERROR_GENERAL.
fail(r, error_code) == [r EXCEPT !.error = error_code, !.ret = RALE_ERROR_GENERAL]

\* The index of the first of the node_count entries with this id, or
\* node_count.
RECURSIVE entry_index(_, _, _)
entry_index(cl, node_id, i) ==
    IF i >= cl.node_count THEN cl.node_count
    ELSE IF cl.nodes[i].id = node_id THEN i
    ELSE entry_index(cl, node_id, i + 1)

\* cluster_add_node with a registry that, when full, takes the new node
\* into its last slot.
cluster_add_node_evicting(r, node_id, name, ip, rport, dport) ==
    IF ~r.initialized THEN fail(r, RALE_ERROR_NOT_INITIALIZED)
    ELSE IF node_id <= 0 \/ node_id > MAX_REASONABLE_NODE_ID
    THEN fail(r, RALE_ERROR_INVALID_NODE_ID)
    ELSE IF Len(name) = 0 \/ Len(name) > MAX_REASONABLE_NAME_LEN
    THEN fail(r, RALE_ERROR_INVALID_CONFIG)
    ELSE IF Len(ip) = 0 \/ Len(ip) > MAX_REASONABLE_IP_LEN
    THEN fail(r, RALE_ERROR_INVALID_CONFIG)
    ELSE IF rport <= 0 \/ rport > MAX_REASONABLE_PORT
    THEN fail(r, RALE_ERROR_INVALID_CONFIG)
    ELSE IF dport <= 0 \/ dport > MAX_REASONABLE_PORT
    THEN fail(r, RALE_ERROR_INVALID_CONFIG)
    ELSE IF entry_index(r.cluster, node_id, 0) < r.cluster.node_count
    THEN fail(r, RALE_ERROR_INVALID_CONFIG)
    ELSE LET at == IF r.cluster.node_count >= MAX_NODES THEN MAX_NODES - 1
                   ELSE r.cluster.node_count
         IN [cluster_save_state(
                 [r EXCEPT !.cluster.nodes[at] =
                               [id |-> node_id,
                                name |-> Prefix(name, NAME_MAX - 1),
                                ip |-> Prefix(ip, IP_ADDR_MAX - 1),
                                rale_port |-> rport,
                                dstore_port |-> dport],
                           !.cluster.node_count = at + 1])
             EXCEPT !.ret = RALE_SUCCESS]

cluster_add_node(r, node_id, name, ip, rport, dport) ==
    IF ~r.initialized THEN fail(r, RALE_ERROR_NOT_INITIALIZED)
    ELSE IF node_id <= 0 \/ node_id > MAX_REASONABLE_NODE_ID
    THEN fail(r, RALE_ERROR_INVALID_NODE_ID)
    ELSE IF Len(name) = 0 \/ Len(name) > MAX_REASONABLE_NAME_LEN
    THEN fail(r, RALE_ERROR_INVALID_CONFIG)
    ELSE IF Len(ip) = 0 \/ Len(ip) > MAX_REASONABLE_IP_LEN
    THEN fail(r, RALE_ERROR_INVALID_CONFIG)
    ELSE IF rport <= 0 \/ rport > MAX_REASONABLE_PORT
    THEN fail(r, RALE_ERROR_INVALID_CONFIG)
    ELSE IF dport <= 0 \/ dport > MAX_REASONABLE_PORT
    THEN fail(r, RALE_ERROR_INVALID_CONFIG)
    ELSE IF entry_index(r.cluster, node_id, 0) < r.cluster.node_count
    THEN fail(r, RALE_ERROR_INVALID_CONFIG)
    ELSE IF r.cluster.node_count >= MAX_NODES
    THEN fail(r, RALE_ERROR_INVALID_CONFIG)
    ELSE [cluster_save_state(
              [r EXCEPT !.cluster.nodes[r.cluster.node_count] =
                            [id |-> node_id,
                             name |-> Prefix(name, NAME_MAX - 1),
                             ip |-> Prefix(ip, IP_ADDR_MAX - 1),
                             rale_port |-> rport,
                             dstore_port |-> dport],
                        !.cluster.node_count = @ + 1])
          EXCEPT !.ret = RALE_SUCCESS]

\* The entries after index i move down by one; the slot that was last
\* keeps its descriptor.
shift_down(cl, i) ==
    [cl EXCEPT !.nodes = [j \in 0..(MAX_NODES - 1) |->
                              IF j >= i /\ j < cl.node_count - 1
                              THEN cl.nodes[j + 1] ELSE cl.nodes[j]],
               !.node_count = @ - 1]

cluster_remove_node(r, node_id) ==
    IF ~r.initialized THEN fail(r, RALE_ERROR_NOT_INITIALIZED)
    ELSE IF entry_index(r.cluster, node_id, 0) >= r.cluster.node_count
    THEN fail(r, RALE_ERROR_INVALID_NODE_ID)
    ELSE [cluster_save_state(
              [r EXCEPT !.cluster = shift_down(@, entry_index(@, node_id, 0))])
          EXCEPT !.ret = RALE_SUCCESS]

cluster_set_state_file(r, path) ==
    IF path = "" THEN [r EXCEPT !.ret = RALE_ERROR_GENERAL]
    ELSE [r EXCEPT !.path = path, !.ret = RALE_SUCCESS]

cluster_set_self_id(r, self_id) ==
    IF self_id <= 0 \/ self_id > MAX_REASONABLE_NODE_ID
    THEN [r EXCEPT !.ret = RALE_ERROR_GENERAL]
    ELSE [cluster_save_state([r EXCEPT !.cluster.self_id = self_id])
          EXCEPT !.ret = RALE_SUCCESS]

cluster_get_node_count(r) == r.cluster.node_count

(***************************************************************************)
(* Membership lines (dstore.c) and LIST (raled_command.c).                 *)
(***************************************************************************)
\* "PROPAGATE_ADD " and "PROPAGATE_REMOVE ".
PROPAGATE_ADD == <<80, 82, 79, 80, 65, 71, 65, 84, 69, 95, 65, 68, 68, 32>>
PROPAGATE_REMOVE == <<80, 82, 79, 80, 65, 71, 65, 84, 69, 95, 82, 69, 77, 79, 86, 69, 32>>

\* command + k
Skip(command, k) == SubSeq(command, k + 1, Len(command))

\* The tokens that successive strtok(.., " ") calls return.
RECURSIVE strtok(_, _)
strtok(s, token) ==
    IF s = <<>> THEN IF token = <<>> THEN <<>> ELSE <<token>>
    ELSE IF Head(s) = 32
    THEN IF token = <<>> THEN strtok(Tail(s), <<>>)
         ELSE <<token>> \o strtok(Tail(s), <<>>)
    ELSE strtok(Tail(s), Append(token, Head(s)))

\* dstore_handle_propagated_add(command): the tokens after command + 13
\* are id, name (63 characters kept), ip (15 kept), rale_port, dstore_port;
\* a token that is missing leaves -1, "" or 0.
dstore_handle_propagated_add(r, command) ==
    LET tokens == strtok(Skip(command, 13), <<>>)
        node_id == IF Len(tokens) >= 1 THEN atoi(tokens[1]) ELSE -1
        name == IF Len(tokens) >= 2 THEN Prefix(tokens[2], 63) ELSE <<>>
        ip == IF Len(tokens) >= 3 THEN Prefix(tokens[3], 15) ELSE <<>>
        rport == IF Len(tokens) >= 4 THEN uint16(atoi(tokens[4])) ELSE 0
        dport == IF Len(tokens) >= 5 THEN uint16(atoi(tokens[5])) ELSE 0
    IN IF node_id >= 0 /\ Len(name) > 0 /\ Len(ip) > 0 /\ rport > 0 /\ dport > 0
       THEN cluster_add_node(r, node_id, name, ip, rport, dport)
       ELSE fail(r, RALE_ERROR_INVALID_PARAMETER)

\* dstore_handle_propagated_remove(command): the id is read at
\* command + 16 when a digit stands there.
dstore_handle_propagated_remove(r, command) ==
    LET node_str == Skip(command, 16)
        node_id == IF node_str # <<>> /\ isdigit(Head(node_str))
                   THEN atoi(node_str) ELSE -1
    IN IF node_id >= 0
       THEN cluster_remove_node(r, node_id)
       ELSE fail(r, RALE_ERROR_INVALID_PARAMETER)

\* The membership branches of dstore_put_from_command(command), on the
\* text of the line: nothing is done while the registry is empty.
dstore_put_from_membership_command(r, command) ==
    IF r.cluster.node_count = 0 THEN fail(r, RALE_ERROR_NOT_INITIALIZED)
    ELSE IF Prefix(command, 14) = PROPAGATE_ADD
    THEN dstore_handle_propagated_add(r, command)
    ELSE IF Prefix(command, 17) = PROPAGATE_REMOVE
    THEN dstore_handle_propagated_remove(r, command)
    ELSE r

\* process_list_command: the "id" fields of the JSON array it builds, one
\* per i < librale_cluster_get_node_count(), each printed from i.
process_list_command(r) == [k \in 1..cluster_get_node_count(r) |-> k - 1]

\* "test_node_" and "127.0.0.1"
test_node_ == <<116, 101, 115, 116, 95, 110, 111, 100, 101, 95>>
LOCALHOST == <<49, 50, 55, 46, 48, 46, 48, 46, 49>>

\* The process image before any call: globals zeroed, no state file.
Started == [cluster |-> ZeroCluster, initialized |-> FALSE, path |-> "",
            file |-> NoStateFile, error |-> RALE_SUCCESS, ret |-> RALE_SUCCESS,
            room |-> 0]

\* cluster_add_node(i, "test_node_<i>", "127.0.0.1", 5000 + i, 6000 + i) for
\* i = 1 .. k in turn, as raled's initialisation does for k = 3.
RECURSIVE AddedInOrder(_, _)
AddedInOrder(r, k) ==
    IF k = 0 THEN r
    ELSE cluster_add_node(AddedInOrder(r, k - 1), k, test_node_ \o itoa(k), LOCALHOST,
                          5000 + k, 6000 + k)

\* rale_init (cluster_init, cluster_set_self_id) and then k nodes added.
Built(k) == AddedInOrder(cluster_set_self_id(cluster_init(Started), Self), k)

\* No call has been made on the registry since it was built.
NoCall == [seq |-> 0, op |-> "", id |-> -1, valid |-> TRUE, ret |-> RALE_SUCCESS,
           response |-> <<>>]

\* The registry variables hold r, and the last call is call.
RegistryIs(r, call) ==
    /\ cluster = r.cluster
    /\ cluster_initialized = r.initialized
    /\ cluster_state_file = r.path
    /\ state_file = r.file
    /\ rale_last_error = r.error
    /\ registry_call = call

\* SHUTDOWN_SUBSYSTEM_DSTORE, _RALE and _COMM.
Subsystems == {"dstore", "rale", "comm"}

\* librale_is_shutdown_requested(subsystem), the shutdown system
\* initialized (raled's main calls librale_shutdown_init first).
librale_is_shutdown_requested(n, subsystem) ==
    IF subsystem \in Subsystems THEN shutdown_requested[n][subsystem]
    ELSE system_exit[n]

\* After rale_init on an empty data directory, at the top of the main loop
\* of raled, which calls dstore_server_tick, dstore_client_tick and
\* rale_quram_process in turn.
LoopInit ==
    /\ current_rale_state = [n \in Nodes |-> InitialState]
    /\ votes_received = [n \in Nodes |-> 0]
    /\ election_active = [n \in Nodes |-> 0]
    /\ pc = [n \in Nodes |-> "server"]
    /\ rale_state = [n \in Nodes |-> NoFile]
    /\ hash_table = [n \in Nodes |-> NullTable]
    /\ rale_db = [n \in Nodes |-> <<>>]
    /\ connection_status = [n \in Nodes |-> NoConnections]
    /\ client_socket_to_node = [n \in Nodes |-> NoSlots]
    /\ tcp_clients = [n \in Nodes |-> NoClients]
    /\ net = {}
    /\ tcp_sent = [n \in Nodes |-> {}]
    /\ vote_grants = [n \in Nodes |-> {}]
    /\ shutdown_requested = [n \in Nodes |-> [s \in Subsystems |-> 0]]
    /\ system_exit = [n \in Nodes |-> 0]
    /\ wait_pc = [n \in Nodes |-> "idle"]
    /\ wait_result = [n \in Nodes |-> 0]
    /\ completions = [n \in Nodes |-> [s \in Subsystems |-> 0]]
    /\ server_loop = [n \in Nodes |-> "none"]

\* The registry is the one raled builds: nodes 1, 2 and 3.
NoHashFile == [present |-> FALSE, bytes |-> <<>>]
NoHashCall == [op |-> "", ret |-> 0, blocked |-> FALSE]

HashInit ==
    /\ hash_source = EmptyTable
    /\ hash_file = NoHashFile
    /\ hash_target = NullTable
    /\ hash_mutex = "unlocked"
    /\ hash_call = NoHashCall

\* No line is on its way between two nodes, no client has given a DELETE,
\* and nothing has been written on the connection.
NoCommand == [node |-> 0, leader |-> FALSE]
\* A time_t that is 0, the value of a static or zeroed time_t that was
\* never set: a time before the process started, whose clock reads 0 in
\* the model at the start.
Never == 0 - 1
LinkInit ==
    /\ delete_links = {}
    /\ delete_messages = 0
    /\ delete_command = NoCommand
    /\ client_writes = <<>>
    /\ socket_bytes = <<>>
    /\ recv_buf = <<>>
    /\ on_receive_lines = <<>>
    /\ last_keep_alive_check = Never
    /\ last_keep_alive_sent = [i \in 0..(node_count - 1) |-> Never]
    /\ keep_alive_log = {}
    /\ last_connect_attempt = Never
    /\ last_connection_attempt = Never
    /\ connection_attempt_count = 0
    /\ is_connected = 0
    /\ connect_calls = 0
    /\ first_run = 1

\* rale_proto_init: last_heartbeat = time(NULL) and election_deadline =
\* compute_election_deadline(), which is time(NULL) + jitter.
TimerInit(jitter) ==
    /\ now = 0
    /\ last_heartbeat = [n \in Nodes |-> 0]
    /\ election_deadline = [n \in Nodes |-> jitter]
    /\ granted_at = [n \in Nodes |-> -1]

Init ==
    /\ LoopInit
    /\ RegistryIs(Built(node_count), NoCall)
    /\ HashInit
    /\ TimerInit(keep_alive_timeout)
    /\ LinkInit

\* No line is waiting on the server's connections.
NoLine == Command("", <<>>, <<>>, -1, -1)

\* The else branch of the DELETE test, from index i on: "DELETE key" to
\* every node other than self whose client exists and is connected.
RECURSIVE delete_broadcast_from(_, _, _)
delete_broadcast_from(w, i, line) ==
    IF i >= node_count THEN w
    ELSE delete_broadcast_from(
             IF nodes[i + 1] # w.self /\ w.clients[i] = "connected"
             THEN dstore_send_message(w, i, line) ELSE w,
             i + 1, line)

\* "DELETE key" and "FORWARD_DELETE key": a DELETE at a node that is not
\* the current leader is forwarded to the leader that is known and
\* connected, and dropped otherwise; every other line is applied with
\* db_delete and "DELETE key" is sent to the connected peers.
dstore_server_on_delete(w, c) ==
    IF c.verb = "DELETE" /\ ~dstore_is_current_leader(w)
    THEN LET current_leader == dstore_get_current_leader(w)
             leader_idx == find_node_index_by_id(current_leader)
         IN IF /\ current_leader # -1
               /\ current_leader # w.self
               /\ leader_idx # MAX_NODES
               /\ w.status[leader_idx] = 1
            THEN dstore_send_message(w, leader_idx,
                                     Command("FORWARD_DELETE", c.key, <<>>, -1, -1))
            ELSE w
    ELSE delete_broadcast_from([w EXCEPT !.table = db_delete(@, c.key)], 0,
                               Command("DELETE", c.key, <<>>, -1, -1))

\* dstore_server_on_receive(slot, line), one line: HELLO maps the slot to
\* the peer and marks the peer connected; DELETE and FORWARD_DELETE are
\* handled here; any other line that is not a keep-alive or GET goes to
\* dstore_put_from_command.
dstore_server_on_receive(w, slot, c) ==
    IF c.verb = "HELLO"
    THEN IF c.id >= 0 /\ find_node_index_by_id(c.id) # MAX_NODES
         THEN [w EXCEPT !.slots[slot] = c.id,
                        !.status[find_node_index_by_id(c.id)] = 1]
         ELSE w
    ELSE IF c.verb \in {"DELETE", "FORWARD_DELETE"}
    THEN dstore_server_on_delete(w, c)
    ELSE dstore_put_from_command(w, c)

\* The line tcp_server_run hands to on_receive: the characters up to the
\* newline, of which char line[TCP_SERVER_BUFFER_SIZE] keeps the first
\* TCP_SERVER_BUFFER_SIZE - 1.  Of "PUT key=value" and "FORWARD_PUT
\* key=value" that is the value cut short, or a line with no '=' when the
\* cut falls in the key.  (The characters cut off are taken as the next
\* line, which for the lines of the model is no command.)
tcp_server_line(c) ==
    IF c.verb \notin {"PUT", "FORWARD_PUT"} THEN c
    ELSE LET verb_len == IF c.verb = "PUT" THEN 3 ELSE 11
             room == (TCP_SERVER_BUFFER_SIZE - 1) - (verb_len + 1 + Len(c.key) + 1)
         IN IF room >= Len(c.value) THEN c
            ELSE IF room >= 0 THEN [c EXCEPT !.value = Prefix(@, room)]
            ELSE Command("", Prefix(c.key, TCP_SERVER_BUFFER_SIZE - 1 - (verb_len + 1)),
                         <<>>, -1, -1)

\* The main loop's test, while (!librale_is_shutdown_requested("rale")),
\* passed, and dstore_server_tick: it returns -1 when shutdown of "dstore"
\* is requested; else tcp_server_run reads the line c that is waiting on
\* slot, if any, and hands it to dstore_server_on_receive.  (The keep-alive
\* lines the tick sends are not recorded in tcp_sent.)
dstore_server_tick(n, slot, c) ==
    /\ pc[n] = "server"
    /\ librale_is_shutdown_requested(n, "rale") = 0
    /\ c.verb = "PUT" => Len(rale_db[n]) < MaxJournal
    /\ Commit(n, IF c = NoLine \/ librale_is_shutdown_requested(n, "dstore") # 0
                 THEN World(n)
                 ELSE dstore_server_on_receive(World(n), slot, tcp_server_line(c)))
    /\ pc' = [pc EXCEPT ![n] = "client"]

\* The connection loop of dstore_client_tick from index i on: a client that
\* is missing is created; the first one that is created and not connected
\* is connected, when the peer accepts, and greeted with HELLO.
RECURSIVE client_tick_from(_, _, _)
client_tick_from(w, i, accepts) ==
    IF i >= node_count THEN w
    ELSE IF nodes[i + 1] = w.self THEN client_tick_from(w, i + 1, accepts)
    ELSE LET w1 == IF w.clients[i] = "NULL" THEN dstore_init_client(w, i) ELSE w
         IN IF w1.clients[i] \in {"NULL", "connected"}
            THEN client_tick_from(w1, i + 1, accepts)
            ELSE IF accepts
            THEN tcp_client_send([w1 EXCEPT !.clients[i] = "connected",
                                            !.status[i] = 1],
                                 i, Command("HELLO", <<>>, <<>>, -1, w.self))
            ELSE w1

\* dstore_client_tick.  attempt: the call reaches the connection loop (it
\* is not the first call, and a second has passed since the last attempt).
dstore_client_tick(n, attempt, accepts) ==
    /\ pc[n] = "client"
    /\ Commit(n, IF attempt THEN client_tick_from(World(n), 0, accepts)
                 ELSE World(n))
    /\ pc' = [pc EXCEPT ![n] = "recv"]

\* rale_quram_process, first half: udp_process_messages.  recvfrom blocks
\* until a datagram is there; m is the datagram, handed to
\* rale_handle_message.
Poll(n, m) ==
    /\ pc[n] = "recv"
    /\ (m.type = "ELECTION_TIMEOUT" /\ m.late)
           => current_rale_state[n].current_term < MaxTerm
    /\ Commit(n, rale_handle_message(World(n), m))
    /\ pc' = [pc EXCEPT ![n] = "duty"]

\* rale_quram_process, second half: the duties of the role.
Duty(n, expired) ==
    /\ pc[n] = "duty"
    /\ expired => /\ current_rale_state[n].role # "leader"
                  /\ current_rale_state[n].current_term < MaxTerm
    /\ Commit(n, rale_handle_duties(World(n), expired))
    /\ pc' = [pc EXCEPT ![n] = "server"]

\* rale_process_command("STEP_DOWN"), from the command socket's thread.
StepDown(n) ==
    /\ Commit(n, rale_become_follower(World(n), -1))
    /\ UNCHANGED pc

\* The process ends and raled starts again: rale_proto_init and dstore_init
\* over the files the process left.
Restart(n) ==
    /\ current_rale_state' =
           [current_rale_state EXCEPT ![n] = rale_state_load(InitialState, rale_state[n])]
    /\ votes_received' = [votes_received EXCEPT ![n] = 0]
    /\ election_active' = [election_active EXCEPT ![n] = 0]
    /\ pc' = [pc EXCEPT ![n] = "server"]
    /\ hash_table' = [hash_table EXCEPT ![n] = NullTable]
    /\ connection_status' = [connection_status EXCEPT ![n] = NoConnections]
    /\ client_socket_to_node' = [client_socket_to_node EXCEPT ![n] = NoSlots]
    /\ tcp_clients' = [tcp_clients EXCEPT ![n] = NoClients]
    /\ UNCHANGED <<rale_state, rale_db, net, tcp_sent, vote_grants, aside>>

\* db_init, which an embedding program calls (raled never does): the table
\* is allocated and emptied, and when rale.db exists hash_load reads it
\* into the table.  Where the load's behaviour is undefined, the process
\* either dies there (or, locking the mutex it holds, waits there for ever)
\* or goes on with the table as it was loaded so far.
db_init(n, outcome) ==
    /\ pc[n] # "down"
    /\ ~hash_table[n].init
    /\ LET loaded == IF rale_db[n] = <<>> THEN [table |-> EmptyTable, ub |-> FALSE]
                     ELSE hash_load(EmptyTable, FileBytes(rale_db[n]))
           relocks == rale_db[n] # <<>> /\ hash_load_relocks(FileBytes(rale_db[n]))
       IN /\ (~loaded.ub /\ ~relocks) => outcome = "on"
          /\ hash_table' = [hash_table EXCEPT ![n] =
                               IF outcome = "dies" THEN @ ELSE loaded.table]
          /\ pc' = [pc EXCEPT ![n] = IF outcome = "dies" THEN "down" ELSE @]
    /\ UNCHANGED <<current_rale_state, votes_received, election_active,
                   rale_state, rale_db, connection_status,
                   client_socket_to_node, tcp_clients, net, tcp_sent,
                   vote_grants, aside>>

(***************************************************************************)
(* shutdown.c.  Every function body runs under shutdown_mutex, so each is   *)
(* one step, but for pthread_cond_timedwait, which gives the mutex up      *)
(* while it waits.  wait_pc is "idle", "waiting" (in the timed wait),      *)
(* "woken" (a broadcast reached the wait) or "returned".                   *)
(***************************************************************************)
\* Calls of librale_signal_shutdown_complete counted per subsystem.
MaxSignals == 2

\* pthread_cond_broadcast(&shutdown_cond): wakes the thread in the wait.
cond_broadcast(n) == [wait_pc EXCEPT ![n] = IF @ = "waiting" THEN "woken" ELSE @]

librale_request_shutdown(n) ==
    /\ system_exit' = [system_exit EXCEPT ![n] = 1]
    /\ shutdown_requested' = [shutdown_requested EXCEPT ![n] = [s \in Subsystems |-> 1]]
    /\ wait_pc' = cond_broadcast(n)
    /\ UNCHANGED <<loop_vars, registry_vars, hash_vars, timer_vars, link_vars, more_vars, wait_result, completions, server_loop>>

\* What librale_signal_shutdown_complete(subsystem) does to the flags and
\* to the waiting thread: the subsystem's flag is cleared, and the
\* condition is broadcast when no flag is left set.
signal_shutdown_complete(n, subsystem) ==
    LET cleared == [shutdown_requested[n] EXCEPT ![subsystem] = 0]
    IN /\ shutdown_requested' = [shutdown_requested EXCEPT ![n] = cleared]
       /\ wait_pc' = IF \A s \in Subsystems : cleared[s] = 0
                     THEN cond_broadcast(n) ELSE wait_pc
       /\ completions' = [completions EXCEPT ![n][subsystem] = @ + 1]

\* A caller of the public librale_signal_shutdown_complete.
librale_signal_shutdown_complete(n, subsystem) ==
    /\ completions[n][subsystem] < MaxSignals
    /\ signal_shutdown_complete(n, subsystem)
    /\ UNCHANGED <<loop_vars, registry_vars, hash_vars, timer_vars, link_vars, more_vars, system_exit, wait_result, server_loop>>

\* librale_wait_for_shutdown_completion up to its pthread_cond_timedwait.
wait_begin(n) ==
    /\ wait_pc[n] = "idle"
    /\ wait_pc' = [wait_pc EXCEPT ![n] = "waiting"]
    /\ UNCHANGED <<loop_vars, registry_vars, hash_vars, timer_vars, link_vars, more_vars, shutdown_requested, system_exit, wait_result,
                   completions, server_loop>>

\* The timed wait returns 0 after a broadcast, and the function returns 0.
wait_return(n) ==
    /\ wait_pc[n] = "woken"
    /\ wait_pc' = [wait_pc EXCEPT ![n] = "returned"]
    /\ wait_result' = [wait_result EXCEPT ![n] = 0]
    /\ UNCHANGED <<loop_vars, registry_vars, hash_vars, timer_vars, link_vars, more_vars, shutdown_requested, system_exit, completions,
                   server_loop>>

\* The timed wait returns ETIMEDOUT, and the function returns -1.
wait_timeout(n) ==
    /\ wait_pc[n] = "waiting"
    /\ wait_pc' = [wait_pc EXCEPT ![n] = "returned"]
    /\ wait_result' = [wait_result EXCEPT ![n] = -1]
    /\ UNCHANGED <<loop_vars, registry_vars, hash_vars, timer_vars, link_vars, more_vars, shutdown_requested, system_exit, completions,
                   server_loop>>

\* A thread enters dstore_server_loop (librale_dstore_server_loop; raled
\* itself runs the ticks instead).
dstore_server_loop_start(n) ==
    /\ server_loop[n] = "none"
    /\ server_loop' = [server_loop EXCEPT ![n] = "run"]
    /\ UNCHANGED <<loop_vars, registry_vars, hash_vars, timer_vars, link_vars, more_vars, shutdown_requested, system_exit, wait_pc,
                   wait_result, completions>>

\* dstore_server_loop leaves its loop on librale_is_shutdown_requested
\* ("dstore"): it closes the server's slots, clears connection_status and
\* signals completion of "dstore".
dstore_server_loop_exit(n) ==
    /\ server_loop[n] = "run"
    /\ librale_is_shutdown_requested(n, "dstore") # 0
    /\ server_loop' = [server_loop EXCEPT ![n] = "done"]
    /\ client_socket_to_node' = [client_socket_to_node EXCEPT ![n] = NoSlots]
    /\ connection_status' = [connection_status EXCEPT ![n] = NoConnections]
    /\ signal_shutdown_complete(n, "dstore")
    /\ UNCHANGED <<current_rale_state, votes_received, election_active, pc,
                   rale_state, hash_table, rale_db, tcp_clients, net, tcp_sent,
                   vote_grants, system_exit, wait_result, registry_vars,
                   hash_vars, timer_vars, link_vars, more_vars>>

\* raled_main_loop_thread leaves its loop on librale_is_shutdown_requested
\* ("rale") and returns.
raled_main_loop_exit(n) ==
    /\ pc[n] = "server"
    /\ librale_is_shutdown_requested(n, "rale") # 0
    /\ pc' = [pc EXCEPT ![n] = "down"]
    /\ UNCHANGED <<current_rale_state, votes_received, election_active,
                   rale_state, hash_table, rale_db, connection_status,
                   client_socket_to_node, tcp_clients, net, tcp_sent,
                   vote_grants, aside>>

(***************************************************************************)
(* What a node's environment sends it.                                     *)
(***************************************************************************)
MsgTerms == -1..MaxTerm

\* A datagram of no RALE type.
Stray == Datagram("VOTE_DENIED", -1, -1, FALSE)

Datagrams(n) ==
    {Datagram(t, id, term, FALSE) :
        t \in {"VOTE_REQUEST", "HEARTBEAT", "VOTE_GRANTED"},
        id \in Nodes \ {n}, term \in MsgTerms}
    \cup {Datagram("ELECTION_TIMEOUT", -1, -1, late) : late \in BOOLEAN}
    \cup {Datagram("HEARTBEAT_ACK", -1, -1, FALSE), Stray}

LeaderLines ==
    {Command(v, <<>>, <<>>, term, id) :
        v \in {"LEADER", "LEADER_ELECTED"}, term \in 0..MaxTerm, id \in Nodes}

PutLines ==
    {Command(v, k, val, -1, -1) :
        v \in {"PUT", "FORWARD_PUT"}, k \in Keys, val \in Values}

HelloLines(n) == {Command("HELLO", <<>>, <<>>, -1, id) : id \in Nodes \ {n}}

\* The server slot the environment's connection occupies.
Slots == {0}

(***************************************************************************)
(* Spec: the main loop of node 1 with no DStore traffic.  Its peers are    *)
(* its environment, and what they send arrives in any order, any number of *)
(* times.                                                                  *)
(***************************************************************************)

Next ==
    \/ \E slot \in Slots : dstore_server_tick(Self, slot, NoLine)
    \/ \E attempt \in BOOLEAN, accepts \in BOOLEAN :
           dstore_client_tick(Self, attempt, accepts)
    \/ \E m \in Datagrams(Self) : Poll(Self, m)
    \/ \E expired \in BOOLEAN : Duty(Self, expired)
    \/ StepDown(Self)
    \/ Restart(Self)

Spec == Init /\ [][Next]_vars

(***************************************************************************)
(* FileSpec: Spec, and the LEADER and LEADER_ELECTED lines that arrive at  *)
(* node 1's DStore server, which rewrite rale.state.                       *)
(***************************************************************************)
FileNext ==
    \/ \E slot \in Slots, c \in LeaderLines \cup {NoLine} :
           dstore_server_tick(Self, slot, c)
    \/ \E attempt \in BOOLEAN, accepts \in BOOLEAN :
           dstore_client_tick(Self, attempt, accepts)
    \/ \E m \in Datagrams(Self) : Poll(Self, m)
    \/ \E expired \in BOOLEAN : Duty(Self, expired)
    \/ StepDown(Self)
    \/ Restart(Self)

FileSpec == Init /\ [][FileNext]_vars

(***************************************************************************)
(* ClusterSpec: the main loops of the three nodes.  A node receives what   *)
(* its peers built for it, late or more than once or never: the            *)
(* VOTE_REQUEST of a node that is candidate, the HEARTBEAT of a node that  *)
(* is leader, a VOTE_GRANTED that a peer built in answer to it; and        *)
(* datagrams that are of no RALE type.                                     *)
(***************************************************************************)
FromPeers(n) ==
    {Datagram("VOTE_REQUEST", c, current_rale_state[c].current_term, FALSE) :
        c \in {x \in Nodes \ {n} : current_rale_state[x].role = "candidate"}}
    \cup {Datagram("HEARTBEAT", l, current_rale_state[l].current_term, FALSE) :
        l \in {x \in Nodes \ {n} : current_rale_state[x].role = "leader"}}
    \cup {Datagram("VOTE_GRANTED", v, t, FALSE) :
        v \in Nodes \ {n}, t \in {x \in 0..MaxTerm : \E y \in Nodes \ {n} : <<n, x>> \in vote_grants[y]}}

Received(n) ==
    {m \in FromPeers(n) : m.type = "VOTE_GRANTED" => <<n, m.term>> \in vote_grants[m.id]}
    \cup {Stray}

ClusterNext ==
    \E n \in Nodes :
        \/ \E slot \in Slots : dstore_server_tick(n, slot, NoLine)
        \/ dstore_client_tick(n, TRUE, TRUE)
        \/ \E m \in Received(n) : Poll(n, m)
        \/ \E expired \in BOOLEAN : Duty(n, expired)

ClusterSpec == Init /\ [][ClusterNext]_vars

(***************************************************************************)
(* StoreSpec: the main loop of node 1 with the DStore lines that reach its *)
(* server from node 2 (HELLO, PUT, FORWARD_PUT), the RALE datagrams of an  *)
(* election at term 1, the STEP_DOWN command, a restart, and an embedding   *)
(* program's db_init.                                                      *)
(***************************************************************************)
StoreLines == PutLines \cup {Command("HELLO", <<>>, <<>>, -1, 2), NoLine}

StoreDatagrams ==
    {Datagram("VOTE_REQUEST", 2, 1, FALSE), Datagram("HEARTBEAT", 2, 1, FALSE),
     Datagram("VOTE_GRANTED", 2, 1, FALSE), Stray}

StoreNext ==
    \/ \E slot \in Slots, c \in StoreLines : dstore_server_tick(Self, slot, c)
    \/ dstore_client_tick(Self, TRUE, TRUE)
    \/ \E m \in StoreDatagrams : Poll(Self, m)
    \/ \E expired \in BOOLEAN : Duty(Self, expired)
    \/ StepDown(Self)
    \/ Restart(Self)
    \/ \E outcome \in {"on", "dies"} : db_init(Self, outcome)

StoreSpec == Init /\ [][StoreNext]_vars

(***************************************************************************)
(* LimitSpec: StoreSpec with lines at the limits of MAX_KEY_SIZE and       *)
(* MAX_VALUE_SIZE.                                                         *)
(***************************************************************************)
\* A key of MAX_KEY_SIZE characters and a value of MAX_VALUE_SIZE characters.
LongKey == [i \in 1..MAX_KEY_SIZE |-> 107]
LongValue == [i \in 1..MAX_VALUE_SIZE |-> 118]

LimitLines ==
    {Command("PUT", LongKey, <<49>>, -1, -1), Command("PUT", <<97>>, LongValue, -1, -1),
     Command("PUT", <<97>>, <<49>>, -1, -1), Command("HELLO", <<>>, <<>>, -1, 2), NoLine}

LimitNext ==
    \/ \E slot \in Slots, c \in LimitLines : dstore_server_tick(Self, slot, c)
    \/ dstore_client_tick(Self, TRUE, TRUE)
    \/ \E m \in StoreDatagrams : Poll(Self, m)
    \/ \E expired \in BOOLEAN : Duty(Self, expired)
    \/ StepDown(Self)
    \/ Restart(Self)
    \/ \E outcome \in {"on", "dies"} : db_init(Self, outcome)

LimitSpec == Init /\ [][LimitNext]_vars

(***************************************************************************)
(* LiveSpec: the three main loops from empty state.  A node's recvfrom     *)
(* returns a datagram that rale_send_message sent to its port, or a        *)
(* datagram of no RALE type that something else sent there.  Every loop    *)
(* keeps running, every datagram sent is delivered, and a timer that is    *)
(* read again and again is found expired at some reading.                  *)
(***************************************************************************)
Delivered(n) == {d.message : d \in {x \in net : x.port = rale_port(n)}}

LoopStep(n) ==
    \/ \E slot \in Slots : dstore_server_tick(n, slot, NoLine)
    \/ dstore_client_tick(n, TRUE, TRUE)
    \/ \E m \in Delivered(n) \cup {Stray} : Poll(n, m)
    \/ \E expired \in BOOLEAN : Duty(n, expired)

LiveNext == \E n \in Nodes : LoopStep(n)

LiveSpec ==
    /\ Init
    /\ [][LiveNext]_vars
    /\ \A n \in Nodes : WF_vars(LoopStep(n))
    /\ \A n \in Nodes : SF_vars(Duty(n, TRUE))
    /\ \A n \in Nodes : SF_vars(\E m \in Delivered(n) : Poll(n, m))

(***************************************************************************)
(* CrashSpec: ClusterSpec in which a node that is leader may crash.  The   *)
(* process of a crashed node is gone: it takes no further step, and the    *)
(* node's variables keep what the process held when it ended.              *)
(***************************************************************************)
Crash(n) ==
    /\ pc[n] # "down"
    /\ current_rale_state[n].role = "leader"
    /\ \A x \in Nodes : pc[x] # "down"
    /\ pc' = [pc EXCEPT ![n] = "down"]
    /\ UNCHANGED <<current_rale_state, votes_received, election_active,
                   rale_state, hash_table, rale_db, connection_status,
                   client_socket_to_node, tcp_clients, net, tcp_sent,
                   vote_grants, aside>>

CrashNext ==
    \E n \in Nodes :
        \/ \E slot \in Slots : dstore_server_tick(n, slot, NoLine)
        \/ dstore_client_tick(n, TRUE, TRUE)
        \/ \E m \in Received(n) : Poll(n, m)
        \/ \E expired \in BOOLEAN : Duty(n, expired)
        \/ Crash(n)

CrashSpec == Init /\ [][CrashNext]_vars

(***************************************************************************)
(* ShutdownSpec: the shutdown coordination of node 1's process under every *)
(* interleaving of its callers: one that requests shutdown, those that     *)
(* signal completion of a subsystem, and one that waits with a timeout.    *)
(***************************************************************************)
ShutdownNext ==
    \/ librale_request_shutdown(Self)
    \/ \E s \in Subsystems : librale_signal_shutdown_complete(Self, s)
    \/ wait_begin(Self)
    \/ wait_return(Self)
    \/ wait_timeout(Self)

ShutdownSpec == Init /\ [][ShutdownNext]_vars

(***************************************************************************)
(* RaledShutdownSpec: the threads of node 1's process through a shutdown:  *)
(* the main loop, a thread in dstore_server_loop if one was started, and   *)
(* the thread that requests shutdown and then waits for completion without *)
(* a timeout.  Every thread keeps running.                                 *)
(***************************************************************************)
MainLoopStep(n) ==
    \/ \E slot \in Slots : dstore_server_tick(n, slot, NoLine)
    \/ dstore_client_tick(n, TRUE, TRUE)
    \/ Poll(n, Stray)
    \/ \E expired \in BOOLEAN : Duty(n, expired)
    \/ raled_main_loop_exit(n)

request_then_wait(n) ==
    \/ librale_request_shutdown(n)
    \/ system_exit[n] = 1 /\ wait_begin(n)
    \/ wait_return(n)

RaledShutdownNext ==
    \/ MainLoopStep(Self)
    \/ dstore_server_loop_start(Self)
    \/ dstore_server_loop_exit(Self)
    \/ request_then_wait(Self)

RaledShutdownSpec ==
    /\ Init
    /\ [][RaledShutdownNext]_vars
    /\ WF_vars(MainLoopStep(Self))
    /\ WF_vars(dstore_server_loop_exit(Self))
    /\ WF_vars(request_then_wait(Self))

(***************************************************************************)
(* Properties.                                                             *)
(***************************************************************************)
Term(n) == current_rale_state[n].current_term
Role(n) == current_rale_state[n].role

\* C2: a node's current_term never decreases: in no step does the term in
\* memory become smaller, and in no step does a rale.state that holds a
\* term come to hold a smaller one (handler steps, writes of rale.state by
\* RALE or by DStore's LEADER and LEADER_ELECTED, restart).
C2_TermNeverDecreases ==
    [][\A n \in Nodes :
          /\ current_rale_state'[n].current_term >= current_rale_state[n].current_term
          /\ rale_state[n].present
                => rale_state'[n].current_term >= rale_state[n].current_term]_vars

\* C3: for every node n and term t, all VOTE_GRANTED replies n builds with
\* term t answer the same candidate.
C3_OneGrantPerTerm ==
    \A n \in Nodes : \A g1 \in vote_grants[n], g2 \in vote_grants[n] :
        g1[2] = g2[2] => g1[1] = g2[1]

VoteRequests(n) ==
    {Datagram("VOTE_REQUEST", c, t, FALSE) : c \in Nodes \ {n}, t \in 0..MaxTerm}

\* The step is node n's handling of datagram m.
Handles(n, m) == pc[n] = "recv" /\ pc'[n] = "duty" /\ Poll(n, m)

\* What C4 states of the step that handles VOTE_REQUEST(c, t) = m at n.
C4_StatedOutcome(n, m) ==
    \/ /\ current_rale_state'[n].current_term = m.term
       /\ current_rale_state'[n].voted_for \in {-1, m.id}
    \/ current_rale_state'[n].current_term > m.term

\* The request is left unanswered: n was at term t already with its vote
\* given to another than c, and its term and its vote are as they were.
C4_Unanswered(n, m) ==
    /\ current_rale_state[n].current_term = m.term
    /\ current_rale_state[n].voted_for \notin {-1, m.id}
    /\ current_rale_state'[n].current_term = m.term
    /\ current_rale_state'[n].voted_for = current_rale_state[n].voted_for

\* C4, as stated: when the handler returns from VOTE_REQUEST(c, t), the node
\* is at term t with voted_for in {-1, c}, or its current_term is above t.
C4_AsStated ==
    [][\A n \in Nodes : \A m \in VoteRequests(n) :
          ~C4_StatedOutcome(n, m) => ~Handles(n, m)]_vars

\* C4, amended: when the handler returns from VOTE_REQUEST(c, t), the node
\* is at term t with voted_for in {-1, c}, or its current_term is above t,
\* or it was at term t already with its vote given to another than c, and
\* its term and its vote are as they were.
C4_VoteRequestOutcome ==
    [][\A n \in Nodes : \A m \in VoteRequests(n) :
          ~(C4_StatedOutcome(n, m) \/ C4_Unanswered(n, m)) => ~Handles(n, m)]_vars

\* C4's case: node 1 is at the return of the handler, at term 2 after a
\* term-1 vote for node 2, having granted node 3's request of term 2.
C4_Witness ==
    /\ pc[Self] = "duty"
    /\ vote_grants[Self] = {<<2, 1>>, <<3, 2>>}
    /\ Term(Self) = 2
    /\ current_rale_state[Self].voted_for = 3

\* C1: no two distinct nodes are both in role leader with equal
\* current_term.
C1_OneLeaderPerTerm ==
    \A a \in Nodes, b \in Nodes :
        (a # b /\ Role(a) = "leader" /\ Role(b) = "leader") => Term(a) # Term(b)

\* The step is node n's server tick with the line c on the slot.
HandlesLine(n, c) ==
    pc[n] = "server" /\ pc'[n] = "client" /\ dstore_server_tick(n, 0, c)

\* "key=value", the journal's line.
JournalLine(c) == c.key \o <<61>> \o c.value

\* C5: only while its RALE role is leader does a node store a PUT as the
\* originating writer (journal append) or fan PUT key=value out: in every
\* step in which node n's journal grows or n sends a PUT line, n's role is
\* leader.
C5_OnlyLeaderWrites ==
    [][\A n \in Nodes :
          (\/ rale_db'[n] # rale_db[n]
           \/ \E s \in tcp_sent'[n] \ tcp_sent[n] : s.line.verb = "PUT")
          => Role(n) = "leader"]_vars

\* C6: after PUT key=value handled by the leader, with the map allocated,
\* db_get(key) returns value.
C6_LeaderPutThenGet ==
    [][\A n \in Nodes : \A c \in {x \in PutLines : x.verb = "PUT"} :
          (/\ pc[n] = "server"
           /\ hash_table[n].init
           /\ Role(n) = "leader"
           /\ dstore_is_current_leader(World(n))
           /\ HandlesLine(n, c))
          => db_get(hash_table'[n], c.key) = c.value]_vars

\* C7: a follower that handles PUT key=value, its map allocated, holds
\* key -> value in its map afterwards and has appended key=value to its
\* journal.
C7_FollowerApplies ==
    [][\A n \in Nodes : \A c \in {x \in PutLines : x.verb = "PUT"} :
          (/\ pc[n] = "server"
           /\ hash_table[n].init
           /\ Role(n) = "follower"
           /\ ~dstore_is_current_leader(World(n))
           /\ HandlesLine(n, c))
          => /\ db_get(hash_table'[n], c.key) = c.value
             /\ rale_db'[n] = Append(rale_db[n], JournalLine(c))]_vars

\* C8: a non-leader that handles PUT key=value while its rale.state names a
\* leader L other than itself (dstore_get_current_leader returns L) and
\* connection_status of L is 1 sends FORWARD_PUT key=value to L.
C8_ForwardToLeader ==
    [][\A n \in Nodes : \A c \in {x \in PutLines : x.verb = "PUT"} :
          (/\ pc[n] = "server"
           /\ Role(n) # "leader"
           /\ dstore_get_current_leader(World(n)) \in Nodes \ {n}
           /\ connection_status[n][find_node_index_by_id(rale_state[n].leader_id)] = 1
           /\ HandlesLine(n, c))
          => [via |-> "client",
              to |-> find_node_index_by_id(rale_state[n].leader_id),
              line |-> Command("FORWARD_PUT", c.key, c.value, -1, -1)]
                 \in tcp_sent'[n]]_vars

\* C9: the leader that handles FORWARD_PUT key=value appends key=value to
\* its journal (it applies the pair to its map and journal and replicates
\* it).
C9_LeaderAppliesForward ==
    [][\A n \in Nodes : \A c \in {x \in PutLines : x.verb = "FORWARD_PUT"} :
          (/\ pc[n] = "server"
           /\ Role(n) = "leader"
           /\ dstore_is_current_leader(World(n))
           /\ Len(rale_db[n]) < MaxJournal
           /\ HandlesLine(n, c))
          => rale_db'[n] = Append(rale_db[n], JournalLine(c))]_vars

\* Exactly one node is leader, and the other two are followers of it at its
\* term.
Elected ==
    \E l \in Nodes :
        /\ Role(l) = "leader"
        /\ \A n \in Nodes \ {l} :
               /\ Role(n) = "follower"
               /\ current_rale_state[n].leader_id = l
               /\ Term(n) = Term(l)

\* C10: in a cluster of three started from empty state, with every RALE
\* datagram that is sent delivered, a state is eventually reached in which
\* one node is leader and the other two are followers with its id as
\* leader_id and its current_term.
C10_EventuallyElected == <>Elected

\* C11: after a leader whose last term was T has crashed, a surviving node
\* that becomes leader does so at a current_term strictly above T.  Stated
\* for the survivors that have reached term T themselves.
C11_NewLeaderAboveCrashed ==
    [][\A l \in Nodes, n \in Nodes :
          (/\ pc[l] = "down"
           /\ pc[n] # "down"
           /\ Term(n) >= Term(l)
           /\ Role(n) # "leader"
           /\ current_rale_state'[n].role = "leader")
          => current_rale_state'[n].current_term > Term(l)]_vars

\* The value of the last line "key=..." of the journal, or NotFound.
RECURSIVE LastPut(_, _)
LastPut(journal, key) ==
    IF journal = <<>> THEN NotFound
    ELSE LET line == journal[Len(journal)]
             n == Len(key)
         IN IF Len(line) > n /\ SubSeq(line, 1, n) = key /\ line[n + 1] = 61
            THEN SubSeq(line, n + 2, Len(line))
            ELSE LastPut(SubSeq(journal, 1, Len(journal) - 1), key)

\* C12: when db_init has replayed rale.db, every key the journal holds maps
\* to the value of its last line (last write wins in append order).
C12_ReplayRebuildsMap ==
    [][\A n \in Nodes :
          (~hash_table[n].init /\ hash_table'[n].init)
          => \A k \in Keys :
                 LastPut(rale_db[n], k) # NotFound
                 => db_get(hash_table'[n], k) = LastPut(rale_db[n], k)]_vars

\* C13: after request_shutdown followed by wait_for_shutdown_completion
\* without a timeout, each of the three subsystems has invoked
\* signal_shutdown_complete exactly once: once the wait has begun, a state
\* is reached in which every subsystem has signalled once.
C13_EachSubsystemSignalsOnce ==
    (wait_pc[Self] # "idle") ~> (\A s \in Subsystems : completions[Self][s] = 1)

\* C14: wait_for_shutdown_completion returns success exactly when all three
\* flags have been cleared: in a shutdown that has been requested, when it
\* returns 0 no flag is set, and it returns -1 only while some flag is set.
C14_WaitSucceedsIffCleared ==
    [][\A n \in Nodes :
          (system_exit[n] = 1 /\ wait_pc[n] # "returned" /\ wait_pc'[n] = "returned")
          => (wait_result'[n] = 0
                  <=> \A s \in Subsystems : shutdown_requested[n][s] = 0)]_vars

(***************************************************************************)
(* The membership registry of the process at node Self under the calls of  *)
(* its users: the library's cluster_* calls, the membership lines that     *)
(* reach dstore_put_from_command, and LIST.                                *)
(***************************************************************************)
\* The ids the calls and lines carry: below the valid range, an id raled
\* registers, a new id, and one above the valid range.
RegistryIds == {0, 2, 11, 1001}

\* How many lines of a save reach the disk: the file cannot be opened (-1),
\* the disk is full after the lines of self_id, node_count and the first
\* node, or the disk takes every line.
Rooms == {-1, 2 + 5, 2 + 5 * MAX_NODES}

\* The argument of a call that is made invalid.
Bad == {"none", "name", "rale_port"}

\* The registry as an operation finds it.
Registry(room) ==
    [cluster |-> cluster, initialized |-> cluster_initialized,
     path |-> cluster_state_file, file |-> state_file, error |-> rale_last_error,
     ret |-> RALE_SUCCESS, room |-> room]

\* The operation returns: its call is the next of at most MaxCalls.
RegistryCommit(r, op, id, bad, response) ==
    /\ cluster' = r.cluster
    /\ cluster_initialized' = r.initialized
    /\ cluster_state_file' = r.path
    /\ state_file' = r.file
    /\ rale_last_error' = r.error
    /\ registry_call.seq < MaxCalls
    /\ registry_call' = [seq |-> registry_call.seq + 1, op |-> op, id |-> id,
                         valid |-> (bad = "none"), ret |-> r.ret,
                         response |-> response]
    /\ UNCHANGED <<loop_vars, shutdown_vars, hash_vars, timer_vars, link_vars, more_vars>>

ArgName(id, bad) == IF bad = "name" THEN <<>> ELSE test_node_ \o itoa(id)
ArgIp(bad) == IF bad = "ip" THEN <<>> ELSE LOCALHOST
ArgRalePort(id, bad) == IF bad = "rale_port" THEN 0 ELSE 5000 + id
ArgDstorePort(id, bad) == IF bad = "dstore_port" THEN 0 ELSE 6000 + id

\* A caller of cluster_add_node.
add_node(id, bad, room) ==
    RegistryCommit(cluster_add_node(Registry(room), id, ArgName(id, bad), ArgIp(bad),
                                    ArgRalePort(id, bad), ArgDstorePort(id, bad)),
                   "cluster_add_node", id, bad, <<>>)

\* A caller of cluster_remove_node.
remove_node(id, room) ==
    RegistryCommit(cluster_remove_node(Registry(room), id),
                   "cluster_remove_node", id, "none", <<>>)

\* The line "PROPAGATE_ADD <id> <name> <ip> <rale_port> <dstore_port>".
PropagateAddLine(id, bad) ==
    PROPAGATE_ADD \o itoa(id) \o <<32>> \o ArgName(id, bad) \o <<32>> \o ArgIp(bad)
        \o <<32>> \o itoa(ArgRalePort(id, bad)) \o <<32>> \o itoa(ArgDstorePort(id, bad))

\* The line "PROPAGATE_REMOVE <id>".
PropagateRemoveLine(id) == PROPAGATE_REMOVE \o itoa(id)

\* A peer's PROPAGATE_ADD line is received and goes to
\* dstore_put_from_command.
propagated_add(id, bad, room) ==
    RegistryCommit(dstore_put_from_membership_command(Registry(room),
                                                      PropagateAddLine(id, bad)),
                   "PROPAGATE_ADD", id, bad, <<>>)

\* A peer's PROPAGATE_REMOVE line is received and goes to
\* dstore_put_from_command.
propagated_remove(id, room) ==
    RegistryCommit(dstore_put_from_membership_command(Registry(room),
                                                      PropagateRemoveLine(id)),
                   "PROPAGATE_REMOVE", id, "none", <<>>)

\* librale_cluster_set_state_file("cluster.state")
set_state_file ==
    RegistryCommit(cluster_set_state_file(Registry(0), "cluster.state"),
                   "cluster_set_state_file", -1, "none", <<>>)

\* cluster_finit, and cluster_init, which loads the state file.
registry_finit ==
    RegistryCommit(cluster_finit(Registry(0)), "cluster_finit", -1, "none", <<>>)

registry_init ==
    RegistryCommit(cluster_init(Registry(0)), "cluster_init", -1, "none", <<>>)

\* The LIST command.
list ==
    RegistryCommit(Registry(0), "LIST", -1, "none", process_list_command(Registry(0)))

\* The sizes the registry starts with: empty, as raled builds it, and full.
StartSizes == {0, node_count, MAX_NODES}

\* The registry starts as k nodes added in order leave it.
RegistryInit ==
    LoopInit /\ HashInit /\ TimerInit(keep_alive_timeout) /\ LinkInit
        /\ \E k \in StartSizes : RegistryIs(Built(k), NoCall)

RegistryNext ==
    \/ \E id \in RegistryIds, bad \in Bad, room \in Rooms : add_node(id, bad, room)
    \/ \E id \in RegistryIds, room \in Rooms : remove_node(id, room)
    \/ \E id \in RegistryIds, bad \in Bad, room \in Rooms : propagated_add(id, bad, room)
    \/ \E id \in RegistryIds, room \in Rooms : propagated_remove(id, room)
    \/ set_state_file
    \/ registry_finit
    \/ registry_init
    \/ list

RegistrySpec == RegistryInit /\ [][RegistryNext]_vars

(***************************************************************************)
(* Properties of the registry.                                             *)
(***************************************************************************)
\* The indexes of the registry's entries.
Entries(cl) == 0..(cl.node_count - 1)

\* A slot holds a descriptor: its id is neither the 0 memset leaves nor
\* the -1 of an empty slot.
Populated(cl, i) == cl.nodes[i].id \notin {0, -1}

\* The id is the id of an entry.
Registered(cl, id) == entry_index(cl, id, 0) < cl.node_count

\* C15: after any sequence of registry add, remove and state-file load
\* operations the registry holds at most MAX_NODES entries, the ids of its
\* entries are pairwise distinct, and node_count is the number of populated
\* slots.
C15_RegistryWellFormed ==
    /\ cluster.node_count <= MAX_NODES
    /\ \A i, j \in Entries(cluster) : i # j => cluster.nodes[i].id # cluster.nodes[j].id
    /\ cluster.node_count =
           Cardinality({i \in 0..(MAX_NODES - 1) : Populated(cluster, i)})

\* The ids a LIST of the registry cl shows.
Listed(cl) ==
    LET response == process_list_command([cluster |-> cl])
    IN {response[k] : k \in DOMAIN response}

\* An id cluster_add_node's validation accepts.
ValidId(id) == id > 0 /\ id <= MAX_REASONABLE_NODE_ID

\* C16: after a node handles PROPAGATE_ADD id name ip rale_port dstore_port
\* for a valid id that is not registered (the registry neither empty nor
\* full), a LIST on the node includes id.
C16_PropagatedAddListed ==
    [][\A id \in RegistryIds :
          (/\ registry_call'.op = "PROPAGATE_ADD"
           /\ registry_call'.id = id
           /\ registry_call'.valid
           /\ ValidId(id)
           /\ cluster_initialized
           /\ cluster.node_count > 0
           /\ cluster.node_count < MAX_NODES
           /\ ~Registered(cluster, id))
          => id \in Listed(cluster')]_vars

\* C17: after a node handles PROPAGATE_REMOVE id for a registered id, the
\* id is no longer in the node's registry and a LIST excludes it.
C17_PropagatedRemoveUnlisted ==
    [][\A id \in RegistryIds :
          (/\ registry_call'.op = "PROPAGATE_REMOVE"
           /\ registry_call'.id = id
           /\ cluster_initialized
           /\ Registered(cluster, id))
          => (~Registered(cluster', id) /\ id \notin Listed(cluster'))]_vars

\* C18: cluster_add_node with valid arguments on a registry that holds
\* MAX_NODES nodes returns RALE_ERROR_GENERAL, records the error code
\* RALE_ERROR_INVALID_CONFIG, and leaves node_count and every slot as they
\* were.
C18_EleventhNodeRejected ==
    [][(/\ registry_call'.op = "cluster_add_node"
        /\ registry_call'.valid
        /\ ValidId(registry_call'.id)
        /\ cluster_initialized
        /\ cluster.node_count = MAX_NODES)
       => (/\ registry_call'.ret = RALE_ERROR_GENERAL
           /\ rale_last_error' = RALE_ERROR_INVALID_CONFIG
           /\ cluster' = cluster)]_vars

\* A new node with valid arguments was refused by a full registry.
C18_Witness ==
    /\ registry_call.op = "cluster_add_node"
    /\ registry_call.valid
    /\ ValidId(registry_call.id)
    /\ ~Registered(cluster, registry_call.id)
    /\ registry_call.ret = RALE_ERROR_GENERAL
    /\ cluster_initialized
    /\ cluster.node_count = MAX_NODES

\* C19: a PUT whose key has MAX_KEY_SIZE characters or more, or whose value
\* has MAX_VALUE_SIZE characters or more, is rejected: the node that
\* handles it leaves its key-value map and its rale.db as they were and
\* sends nothing.
C19_OversizePutRejected ==
    [][\A n \in Nodes : \A c \in {x \in LimitLines : x.verb = "PUT"} :
          (/\ (Len(c.key) >= MAX_KEY_SIZE \/ Len(c.value) >= MAX_VALUE_SIZE)
           /\ HandlesLine(n, c))
          => /\ hash_table'[n] = hash_table[n]
             /\ rale_db'[n] = rale_db[n]
             /\ tcp_sent'[n] = tcp_sent[n]]_vars


(***************************************************************************)
(* VoteSpec: node 1's main loop, its STEP_DOWN command and its restarts,   *)
(* where the UDP socket receives VOTE_REQUEST datagrams from any sender    *)
(* and the VOTE_DENIED replies of the peers.                               *)
(* rale_handle_message reads the candidate id with atoi, converts it to    *)
(* uint32_t and back to int, which gives back the number atoi read, and    *)
(* checks it against nothing: a datagram "VOTE_REQUEST -7 1" is a request  *)
(* of candidate -7.                                                        *)
(***************************************************************************)
CandidateIds == (Nodes \ {Self}) \cup {-7}

ForeignVoteRequests(n) ==
    {Datagram("VOTE_REQUEST", id, term, FALSE) :
        id \in CandidateIds, term \in MsgTerms}

\* The VOTE_DENIED replies of the peers, "VOTE_DENIED <id> <term>".
Denials(n) ==
    {Datagram("VOTE_DENIED", id, term, FALSE) :
        id \in Nodes \ {n}, term \in 0..MaxTerm}

VoteNext ==
    \/ \E slot \in Slots : dstore_server_tick(Self, slot, NoLine)
    \/ \E attempt \in BOOLEAN, accepts \in BOOLEAN :
           dstore_client_tick(Self, attempt, accepts)
    \/ \E m \in Datagrams(Self) \cup ForeignVoteRequests(Self) \cup Denials(Self) :
           Poll(Self, m)
    \/ \E expired \in BOOLEAN : Duty(Self, expired)
    \/ StepDown(Self)
    \/ Restart(Self)

VoteSpec == Init /\ [][VoteNext]_vars

\* The five fields of the state that rale.state holds.
Persisted(state) ==
    <<state.current_term, state.voted_for, state.leader_id,
      state.last_log_index, state.last_log_term>>

\* C20: when rale.state is what rale_state_save writes of the state in
\* memory and the process restarts, the state that rale_proto_init loads
\* equals the state before the restart on current_term, voted_for,
\* leader_id, last_log_index and last_log_term.
C20_SaveLoadRoundTrip ==
    [][\A n \in Nodes :
          (/\ rale_state[n] = rale_state_save(World(n)).file
           /\ Restart(n))
          => Persisted(current_rale_state'[n]) = Persisted(current_rale_state[n])]_vars


(***************************************************************************)
(* HashSpec: one thread fills a table with hash_put, writes it with        *)
(* hash_save, and loads the file with hash_load into a table that          *)
(* hash_init has just emptied.  Locking a mutex of the default type that   *)
(* the thread already holds is undefined: where the mutex is a normal one  *)
(* the thread waits for itself for ever, where it checks for errors the    *)
(* lock fails, hash_put goes on and its unlock releases the mutex.         *)
(***************************************************************************)
HashKeys == Keys \cup {<<98>>}

HashCommit(op, ret, blocked) ==
    /\ ~hash_call.blocked
    /\ hash_call' = [op |-> op, ret |-> ret, blocked |-> blocked]
    /\ UNCHANGED <<loop_vars, shutdown_vars, registry_vars, timer_vars, link_vars, more_vars>>

table_put(key, value) ==
    /\ HashCommit("hash_put", 0, FALSE)
    /\ hash_source' = hash_put(hash_source, key, value)
    /\ UNCHANGED <<hash_file, hash_target, hash_mutex>>

\* hash_save(table, filename): -1 when the file cannot be opened.
table_save(opened) ==
    /\ HashCommit("hash_save", IF opened THEN 0 ELSE -1, FALSE)
    /\ hash_file' = IF opened
                    THEN [present |-> TRUE, bytes |-> hash_save(hash_source)]
                    ELSE hash_file
    /\ UNCHANGED <<hash_source, hash_target, hash_mutex>>

\* hash_init(table) and hash_load(table, filename).
table_load(relock) ==
    LET loaded == hash_load(EmptyTable, hash_file.bytes)
    IN IF ~hash_file.present \/ Len(hash_file.bytes) < 4
       THEN /\ HashCommit("hash_load", -1, FALSE)
            /\ hash_target' = EmptyTable
            /\ hash_mutex' = "unlocked"
            /\ UNCHANGED <<hash_source, hash_file>>
       ELSE IF hash_load_relocks(hash_file.bytes) /\ relock = "waits"
       THEN /\ HashCommit("hash_load", 0, TRUE)
            /\ hash_target' = EmptyTable
            /\ hash_mutex' = "locked"
            /\ UNCHANGED <<hash_source, hash_file>>
       ELSE /\ HashCommit("hash_load", 0, FALSE)
            /\ hash_target' = loaded.table
            /\ hash_mutex' = "unlocked"
            /\ UNCHANGED <<hash_source, hash_file>>

HashNext ==
    \/ \E key \in HashKeys, value \in Values : table_put(key, value)
    \/ \E opened \in BOOLEAN : table_save(opened)
    \/ \E relock \in {"waits", "fails"} : table_load(relock)

HashSpec == Init /\ [][HashNext]_vars

\* The (key, value) pairs a table holds.
Pairs(table) ==
    UNION {{<<table.entries[b][i].key, table.entries[b][i].value>> :
               i \in 1..Len(table.entries[b])} : b \in DOMAIN table.entries}

\* C21: when hash_load is called on the file that hash_save wrote of a
\* table, the call returns 0 with the mutex of the loaded table released,
\* the loaded table holds exactly the (key, value) pairs of the saved one,
\* and hash_get finds every one of them.
C21_SaveLoadSamePairs ==
    [][(/\ hash_call'.op = "hash_load"
        /\ hash_file.present
        /\ hash_file.bytes = hash_save(hash_source))
       => (/\ ~hash_call'.blocked
           /\ hash_call'.ret = 0
           /\ hash_mutex' = "unlocked"
           /\ Pairs(hash_target') = Pairs(hash_source)
           /\ \A kv \in Pairs(hash_source) :
                  hash_get(hash_target', kv[1]) = kv[2])]_vars


\* The peers that have built a VOTE_GRANTED for candidate n at term t.
Voters(n, t) == {y \in Nodes \ {n} : <<n, t>> \in vote_grants'[y]}

\* C22: a node becomes leader only when its own vote and the VOTE_GRANTED
\* replies that distinct peers built for it at its current term are more
\* than node_count / 2.
C22_LeaderHasMajority ==
    [][\A n \in Nodes :
          (Role(n) # "leader" /\ current_rale_state'[n].role = "leader")
          => 1 + Cardinality(Voters(n, current_rale_state'[n].current_term))
                 > node_count \div 2]_vars


\* The HEARTBEAT datagrams that carry a term.
Heartbeats(n) ==
    {Datagram("HEARTBEAT", l, t, FALSE) : l \in Nodes \ {n}, t \in 0..MaxTerm}

\* C23: a node that handles a HEARTBEAT whose term is below its
\* current_term keeps its role and its leader_id.
C23_StaleHeartbeatIgnored ==
    [][\A n \in Nodes : \A m \in Heartbeats(n) :
          (m.term < Term(n) /\ Handles(n, m))
          => /\ current_rale_state'[n].role = Role(n)
             /\ current_rale_state'[n].leader_id = current_rale_state[n].leader_id]_vars


\* The RALE messages that carry a term.
TermMessages(n) ==
    {Datagram(type, id, t, FALSE) :
        type \in {"VOTE_REQUEST", "VOTE_GRANTED", "VOTE_DENIED", "HEARTBEAT"},
        id \in Nodes \ {n}, t \in 0..MaxTerm}

\* C24: when a node has handled a VOTE_REQUEST, VOTE_GRANTED, VOTE_DENIED or
\* HEARTBEAT that carries term t, its current_term is at least t.
C24_TermAtLeastMessage ==
    [][\A n \in Nodes : \A m \in TermMessages(n) :
          Handles(n, m) => current_rale_state'[n].current_term >= m.term]_vars


\* The state and the file agree on the three fields both hold for a term,
\* a vote and a leader.
Reflects(file, state) ==
    /\ file.present
    /\ file.current_term = state.current_term
    /\ file.voted_for = state.voted_for
    /\ file.leader_id = state.leader_id

\* C25: a node that handles VOTE_REQUEST(c, t) with t above its
\* current_term is, when the grant rule is applied, follower at term t with
\* no vote and no leader (leader_id = -1), with rale.state holding the
\* same; the handler's outcome is the grant rule's on that state.
C25_HigherTermRequestResets ==
    [][\A n \in Nodes : \A m \in VoteRequests(n) :
          (m.term > Term(n) /\ Handles(n, m))
          => LET w == vote_request_adopt_term(World(n), m.term)
             IN /\ w.state.current_term = m.term
                /\ w.state.voted_for = -1
                /\ w.state.role = "follower"
                /\ w.state.leader_id = -1
                /\ Reflects(w.file, w.state)
                /\ current_rale_state'[n] = vote_request_grant(w, m.id).state]_vars


\* The datagrams of other types than the five of the protocol.
OtherTypes(n) ==
    {m \in Datagrams(n) :
        m.type \notin {"VOTE_REQUEST", "VOTE_GRANTED", "VOTE_DENIED",
                       "HEARTBEAT", "HEARTBEAT_ACK"}}

\* C26: a node that handles a datagram whose type is none of VOTE_REQUEST,
\* VOTE_GRANTED, VOTE_DENIED, HEARTBEAT and HEARTBEAT_ACK keeps its role,
\* its current_term and its voted_for.
C26_UnknownDatagramIgnored ==
    [][\A n \in Nodes : \A m \in OtherTypes(n) :
          Handles(n, m)
          => /\ current_rale_state'[n].role = Role(n)
             /\ current_rale_state'[n].current_term = Term(n)
             /\ current_rale_state'[n].voted_for = current_rale_state[n].voted_for]_vars


(***************************************************************************)
(* TickSpec: node 1's main loop, where the loop itself keeps running: the  *)
(* thread is scheduled, so a step of the loop that can be taken is taken.  *)
(* What arrives on the UDP socket, and whether anything does, is up to the *)
(* environment.                                                            *)
(***************************************************************************)
TickNext ==
    \/ \E slot \in Slots : dstore_server_tick(Self, slot, NoLine)
    \/ \E attempt \in BOOLEAN, accepts \in BOOLEAN :
           dstore_client_tick(Self, attempt, accepts)
    \/ \E m \in Datagrams(Self) : Poll(Self, m)
    \/ \E expired \in BOOLEAN : Duty(Self, expired)

TickSpec ==
    /\ Init
    /\ [][TickNext]_vars
    /\ WF_vars(\E slot \in Slots : dstore_server_tick(Self, slot, NoLine))
    /\ WF_vars(\E attempt \in BOOLEAN, accepts \in BOOLEAN :
                   dstore_client_tick(Self, attempt, accepts))
    /\ WF_vars(\E expired \in BOOLEAN : Duty(Self, expired))

\* C28: the poll of the UDP socket does not wait, so every tick of the main
\* loop runs the duties of the role, whether a datagram was pending or not:
\* the loop is at its duty step again and again.
C28_DutiesRunEveryTick == []<>(pc[Self] = "duty")


\* C29: between handlers, a rale.state that exists holds the current_term,
\* the voted_for and the leader_id of the node's state in memory.
C29_FileAgreesWithMemory ==
    \A n \in Nodes :
        rale_state[n].present => Reflects(rale_state[n], current_rale_state[n])


\* The registry indexes of the peers of n that are connected: nodes of
\* another id whose connection_status is 1.
ConnectedPeers(n) ==
    {i \in 0..(node_count - 1) : nodes[i + 1] # n /\ connection_status[n][i] = 1}

\* C30: when the leader handles PUT key=value, the line PUT key=value is
\* sent to every connected peer, a node whose id is not the leader's own,
\* and to no other node.
C30_LeaderPutReachesPeers ==
    [][\A n \in Nodes : \A c \in {x \in PutLines : x.verb = "PUT"} :
          (/\ Role(n) = "leader"
           /\ dstore_is_current_leader(World(n))
           /\ HandlesLine(n, c))
          => /\ \A i \in ConnectedPeers(n) :
                    [via |-> "client", to |-> i, line |-> c] \in tcp_sent'[n]
             /\ \A s \in tcp_sent'[n] \ tcp_sent[n] :
                    s.line.verb = "PUT" => s.to \in ConnectedPeers(n)]_vars


(***************************************************************************)
(* TimerSpec: node 1's main loop with the clock.  time(NULL) advances      *)
(* between the steps of the loop; the timers are read and set by the       *)
(* handlers as they run.                                                   *)
(***************************************************************************)
\* compute_election_deadline: time(NULL) + base + rand() % base.
Jitters == keep_alive_timeout..(2 * keep_alive_timeout - 1)

\* Whether rale_handle_message, handling m in state w, reaches a call of
\* compute_election_deadline: in rale_become_follower, at a vote granted, or
\* in the ELECTION_TIMEOUT branch.
adopts_term(w, m) ==
    /\ m.type = "VOTE_REQUEST"
    /\ ~(m.term # -1 /\ m.term < w.state.current_term)
    /\ m.term > w.state.current_term

grants_vote(w, m) ==
    /\ m.type = "VOTE_REQUEST"
    /\ ~(m.term # -1 /\ m.term < w.state.current_term)
    /\ \/ adopts_term(w, m)
       \/ w.state.role # "leader" /\ w.state.voted_for \in {-1, m.id}

resets_deadline(w, m) ==
    \/ adopts_term(w, m)
    \/ grants_vote(w, m)
    \/ m.type = "HEARTBEAT" /\ m.id >= 0
    \/ m.type = "ELECTION_TIMEOUT" /\ m.late

\* time(NULL) returns one more.
Tick ==
    /\ now < MaxTime
    /\ now' = now + 1
    /\ UNCHANGED <<loop_vars, shutdown_vars, registry_vars, hash_vars, link_vars, more_vars,
                   last_heartbeat, election_deadline, granted_at>>

\* rale_quram_process, first half, with the timers the handler sets.
Receive(n, m, jitter) ==
    /\ pc[n] = "recv"
    /\ m.type = "ELECTION_TIMEOUT"
           => /\ m.late = (now - last_heartbeat[n] > keep_alive_timeout)
              /\ m.late => current_rale_state[n].current_term < MaxTerm
    /\ LoopCommit(n, rale_handle_message(World(n), m))
    /\ pc' = [pc EXCEPT ![n] = "duty"]
    /\ last_heartbeat' =
           [last_heartbeat EXCEPT
               ![n] = IF m.type \in {"HEARTBEAT", "HEARTBEAT_ACK"} THEN now ELSE @]
    /\ election_deadline' =
           [election_deadline EXCEPT
               ![n] = IF resets_deadline(World(n), m) THEN now + jitter ELSE @]
    /\ granted_at' =
           [granted_at EXCEPT
               ![n] = IF adopts_term(World(n), m) \/ grants_vote(World(n), m)
                      THEN now ELSE @]
    /\ UNCHANGED <<now, shutdown_vars, registry_vars, hash_vars, link_vars, more_vars>>

\* What the duties of n's role read of the clock: a candidate
\* time(NULL) > election_deadline, a follower
\* time(NULL) > last_heartbeat + get_keep_alive_timeout().
timer_expired(n) ==
    IF Role(n) = "candidate" THEN now > election_deadline[n]
    ELSE now > last_heartbeat[n] + keep_alive_timeout

\* rale_quram_process, second half, with the timers the duties read and set.
Duties(n, jitter) ==
    /\ pc[n] = "duty"
    /\ (Role(n) # "leader" /\ timer_expired(n))
           => current_rale_state[n].current_term < MaxTerm
    /\ LoopCommit(n, rale_handle_duties(World(n),
                                        Role(n) # "leader" /\ timer_expired(n)))
    /\ pc' = [pc EXCEPT ![n] = "server"]
    /\ election_deadline' =
           [election_deadline EXCEPT
               ![n] = IF Role(n) # "leader" /\ timer_expired(n)
                      THEN now + jitter ELSE @]
    /\ UNCHANGED <<now, last_heartbeat, granted_at,
                   shutdown_vars, registry_vars, hash_vars, link_vars, more_vars>>

\* What arrives on node 1's UDP socket: a peer's request for a vote, a
\* leader's heartbeat, ELECTION_TIMEOUT, and a datagram of no RALE type.
TimerDatagrams ==
    {Datagram("VOTE_REQUEST", 2, t, FALSE) : t \in 0..1}
    \cup {Datagram("HEARTBEAT", 2, 0, FALSE), Stray}
    \cup {Datagram("ELECTION_TIMEOUT", -1, -1, late) : late \in BOOLEAN}

TimerNext ==
    \/ Tick
    \/ \E slot \in Slots : dstore_server_tick(Self, slot, NoLine)
    \/ \E attempt \in BOOLEAN, accepts \in BOOLEAN :
           dstore_client_tick(Self, attempt, accepts)
    \/ \E m \in TimerDatagrams, jitter \in Jitters : Receive(Self, m, jitter)
    \/ \E jitter \in Jitters : Duties(Self, jitter)

TimerStart ==
    /\ LoopInit
    /\ RegistryIs(Built(node_count), NoCall)
    /\ HashInit
    /\ LinkInit
    /\ \E jitter \in Jitters : TimerInit(jitter)

TimerSpec == TimerStart /\ [][TimerNext]_vars

\* C27: a follower whose duties start an election, after it has granted a
\* vote or adopted the term of a VOTE_REQUEST, does so no sooner than a
\* full election timeout after that moment.
C27_NoElectionRightAfterVote ==
    [][\A n \in Nodes :
          (/\ pc[n] = "duty"
           /\ Role(n) = "follower"
           /\ current_rale_state'[n].role = "candidate"
           /\ granted_at[n] >= 0)
          => now >= granted_at[n] + keep_alive_timeout]_vars

(***************************************************************************)
(* DeleteSpec: the main loop of node 1 with the PUT, DELETE and            *)
(* FORWARD_DELETE lines that reach its server, the HELLO of node 2, the    *)
(* RALE datagrams of an election at term 1, the STEP_DOWN command and an   *)
(* embedding program's db_init.                                            *)
(***************************************************************************)
DeleteLines ==
    {Command(v, k, <<>>, -1, -1) : v \in {"DELETE", "FORWARD_DELETE"}, k \in Keys}

DeleteStoreLines ==
    {c \in PutLines : c.verb = "PUT"} \cup DeleteLines
        \cup {Command("HELLO", <<>>, <<>>, -1, 2), NoLine}

DeleteNext ==
    \/ \E slot \in Slots, c \in DeleteStoreLines : dstore_server_tick(Self, slot, c)
    \/ dstore_client_tick(Self, TRUE, TRUE)
    \/ \E m \in StoreDatagrams : Poll(Self, m)
    \/ \E expired \in BOOLEAN : Duty(Self, expired)
    \/ StepDown(Self)
    \/ \E outcome \in {"on", "dies"} : db_init(Self, outcome)

DeleteSpec == Init /\ [][DeleteNext]_vars

\* The keys a table holds.
HeldKeys(table) == {p[1] : p \in Pairs(table)}

\* C31: a deletion is replicated: when a follower, with the leader it
\* knows connected, handles the line "DELETE key" that the leader sends to
\* its peers, key is absent from the follower's map afterwards.
C31_FollowerDeletes ==
    [][\A n \in Nodes : \A c \in {x \in DeleteLines : x.verb = "DELETE"} :
          (/\ pc[n] = "server"
           /\ hash_table[n].init
           /\ Role(n) = "follower"
           /\ ~dstore_is_current_leader(World(n))
           /\ HandlesLine(n, c))
          => c.key \notin HeldKeys(hash_table'[n])]_vars

(***************************************************************************)
(* DeleteClusterSpec: the main loops of two of the three nodes, as in      *)
(* ClusterSpec, with the HELLO lines that reach their servers, one DELETE  *)
(* that a client gives to one of them, and the DELETE and FORWARD_DELETE   *)
(* lines the nodes write to one another, each read once by the server it   *)
(* was written to.                                                         *)
(***************************************************************************)
\* Of the lines sent, the DELETE and FORWARD_DELETE lines that node n wrote
\* on its client links, as lines on their way to the peers' servers.
DeleteSends(n, sent) ==
    {[from |-> n, to |-> nodes[s.to + 1], line |-> s.line] :
        s \in {x \in sent : /\ x.via = "client"
                            /\ x.line.verb \in {"DELETE", "FORWARD_DELETE"}}}

\* What is waiting at node n's server: a client's "DELETE a", when no
\* client has given one yet, and what the peers wrote to n.
DeleteArrivals(n) ==
    {[from |-> 0, to |-> n, line |-> Command("DELETE", <<97>>, <<>>, -1, -1)] :
        x \in {y \in {0} : delete_command = NoCommand}}
    \cup {m \in delete_links : m.to = n}

\* dstore_server_tick of node n with the arrival m on slot 0.
dstore_server_delete_tick(n, m) ==
    /\ pc[n] = "server"
    /\ librale_is_shutdown_requested(n, "rale") = 0
    /\ librale_is_shutdown_requested(n, "dstore") = 0
    /\ delete_messages <= node_count
    /\ LET w == dstore_server_on_receive([World(n) EXCEPT !.out = {}], 0,
                                         tcp_server_line(m.line))
       IN /\ LoopCommit(n, [w EXCEPT !.out = World(n).out \cup w.out])
          /\ delete_links' = (delete_links \ {m}) \cup DeleteSends(n, w.out)
          /\ delete_messages' = delete_messages + Cardinality(DeleteSends(n, w.out))
    /\ delete_command' =
           IF m.from = 0
           THEN [node |-> n, leader |-> dstore_is_current_leader(World(n))]
           ELSE delete_command
    /\ pc' = [pc EXCEPT ![n] = "client"]
    /\ UNCHANGED <<shutdown_vars, registry_vars, hash_vars, timer_vars, more_vars>>

\* The nodes that run; the third node is down.
Running == {nodes[1], nodes[2]}

DeleteClusterNext ==
    \E n \in Running :
        \/ \E slot \in Slots,
              c \in {x \in HelloLines(n) : x.id \in Running} \cup {NoLine} :
               dstore_server_tick(n, slot, c)
        \/ \E m \in DeleteArrivals(n) : dstore_server_delete_tick(n, m)
        \/ dstore_client_tick(n, TRUE, TRUE)
        \/ \E m \in Received(n) : Poll(n, m)
        \/ \E expired \in BOOLEAN : Duty(n, expired)

DeleteClusterSpec == Init /\ [][DeleteClusterNext]_vars

MaxLines == 3

\* The verb of a line, as character codes.
VerbText(verb) ==
    CASE verb = "HELLO" -> <<72, 69, 76, 76, 79>>
      [] verb = "KEEP_ALIVE" -> <<75, 69, 69, 80, 95, 65, 76, 73, 86, 69>>
      [] verb = "PROPAGATE_ADD" -> <<80, 82, 79, 80, 65, 71, 65, 84, 69, 95, 65, 68, 68>>
      [] verb = "LEADER" -> <<76, 69, 65, 68, 69, 82>>
      [] verb = "PUT" -> <<80, 85, 84>>
      [] verb = "FORWARD_PUT" -> <<70, 79, 82, 87, 65, 82, 68, 95, 80, 85, 84>>
      [] verb = "DELETE" -> <<68, 69, 76, 69, 84, 69>>
      [] verb = "FORWARD_DELETE" -> <<70, 79, 82, 87, 65, 82, 68, 95, 68, 69, 76, 69, 84, 69>>

\* The message that the sender's snprintf builds of a line: "HELLO %d",
\* KEEP_ALIVE_MESSAGE, "PROPAGATE_ADD %d %s %s %d %d", "LEADER %d %d",
\* "PUT %s=%s", "FORWARD_PUT %s=%s", "DELETE %s", "FORWARD_DELETE %s".
snprintf_message(c) ==
    IF c.verb = "KEEP_ALIVE" THEN VerbText(c.verb)
    ELSE IF c.verb = "HELLO" THEN VerbText(c.verb) \o <<32>> \o itoa(c.id)
    ELSE IF c.verb = "PROPAGATE_ADD" THEN PropagateAddLine(c.id, "none")
    ELSE IF c.verb = "LEADER"
    THEN VerbText(c.verb) \o <<32>> \o itoa(c.term) \o <<32>> \o itoa(c.id)
    ELSE IF c.verb \in {"PUT", "FORWARD_PUT"}
    THEN VerbText(c.verb) \o <<32>> \o c.key \o <<61>> \o c.value
    ELSE VerbText(c.verb) \o <<32>> \o c.key

\* The messages of the eight kinds that a node sends on a client link.
WireLines ==
    {Command(v, <<>>, <<>>, -1, 1) : v \in {"HELLO", "PROPAGATE_ADD"}}
    \cup {Command("KEEP_ALIVE", <<>>, <<>>, -1, -1), Command("LEADER", <<>>, <<>>, 0, 1)}
    \cup {Command(v, <<97>>, <<49>>, -1, -1) : v \in {"PUT", "FORWARD_PUT"}}
    \cup {Command(v, <<97>>, <<>>, -1, -1) : v \in {"DELETE", "FORWARD_DELETE"}}

\* tcp_client_send(client, message) on a connected client: what send()
\* puts on the socket, strlen(message) bytes of message.
tcp_client_send_bytes(message) == message

\* The loop of tcp_server_run over recv_buf: every line that ends with
\* '\n', cut to TCP_SERVER_BUFFER_SIZE - 1 characters, is taken off the
\* buffer and, when not empty, given to on_receive.
RECURSIVE take_lines(_, _)
take_lines(buf, lines) ==
    IF ~\E i \in 1..Len(buf) : buf[i] = 10 THEN [rest |-> buf, lines |-> lines]
    ELSE LET newline == CHOOSE i \in 1..Len(buf) :
                            buf[i] = 10 /\ \A j \in 1..(i - 1) : buf[j] # 10
             line_len == IF newline - 1 >= TCP_SERVER_BUFFER_SIZE
                         THEN TCP_SERVER_BUFFER_SIZE - 1 ELSE newline - 1
         IN take_lines(SubSeq(buf, line_len + 2, Len(buf)),
                       IF line_len > 0 THEN Append(lines, SubSeq(buf, 1, line_len))
                       ELSE lines)

\* A caller of tcp_client_send with the message of line c.
client_send(c) ==
    /\ Len(client_writes) < MaxLines
    /\ client_writes' = Append(client_writes, snprintf_message(c))
    /\ socket_bytes' = socket_bytes \o tcp_client_send_bytes(snprintf_message(c))
    /\ UNCHANGED <<loop_vars, shutdown_vars, registry_vars, hash_vars, timer_vars,
                   link_vars, keepalive_vars, backoff_vars,
                   recv_buf, on_receive_lines>>

\* tcp_server_run when the connection is readable: read() returns up to
\* TCP_SERVER_BUFFER_SIZE - 1 bytes, which are appended to recv_buf (emptied
\* first when they do not fit), and the complete lines are dispatched.
tcp_server_run ==
    /\ socket_bytes # <<>>
    /\ LET valread == IF Len(socket_bytes) > TCP_SERVER_BUFFER_SIZE - 1
                      THEN TCP_SERVER_BUFFER_SIZE - 1 ELSE Len(socket_bytes)
           kept == IF Len(recv_buf) + valread >= 2 * TCP_SERVER_BUFFER_SIZE
                   THEN <<>> ELSE recv_buf
           taken == take_lines(kept \o SubSeq(socket_bytes, 1, valread), <<>>)
       IN /\ socket_bytes' = SubSeq(socket_bytes, valread + 1, Len(socket_bytes))
          /\ recv_buf' = taken.rest
          /\ on_receive_lines' = on_receive_lines \o taken.lines
    /\ UNCHANGED <<loop_vars, shutdown_vars, registry_vars, hash_vars, timer_vars,
                   link_vars, keepalive_vars, backoff_vars, client_writes>>

WireNext ==
    \/ \E c \in WireLines : client_send(c)
    \/ tcp_server_run

WireSpec == Init /\ [][WireNext]_vars

\* C33: every message written on a client link ends with a newline, so
\* that the receiving server gives it to on_receive as one line: when the
\* server has read all that was written, the lines it has dispatched are
\* the messages that were sent, one line for each.
C33_EachMessageOneLine ==
    socket_bytes = <<>> => on_receive_lines = client_writes

(***************************************************************************)
(* AcceptSpec: the main loop of node 1 with the connections its server     *)
(* accepts, the HELLO and LEADER lines of node 2, and the RALE datagrams   *)
(* of an election at term 1.                                               *)
(***************************************************************************)
\* dstore_send_cluster_snapshot_to_client, from index i on: one
\* "PROPAGATE_ADD ..." line for every registered node, self included.
RECURSIVE snapshot_to_client_from(_, _, _)
snapshot_to_client_from(w, slot, i) ==
    IF i >= node_count THEN w
    ELSE snapshot_to_client_from(
             tcp_server_send(w, slot,
                             Command("PROPAGATE_ADD", <<>>, <<>>, -1, nodes[i + 1])),
             slot, i + 1)

\* dstore_server_on_connection(slot, client_ip, client_port).  node_idx is
\* 0 at first and becomes the index of the first registered node other than
\* self that has the client's address (ip_registered: there is one, and
\* as all nodes have one address it is the first node other than self).
dstore_server_on_connection(w, slot, ip_registered) ==
    LET node_idx == IF ip_registered
                    THEN (CHOOSE i \in 1..node_count :
                              /\ nodes[i] # w.self
                              /\ \A j \in 1..(i - 1) : nodes[j] = w.self) - 1
                    ELSE 0
        w1 == [w EXCEPT !.slots[slot] = -1]
        leader_id == dstore_get_current_leader(w1)
    IN IF node_idx = MAX_NODES THEN w1
       ELSE LET w2 == snapshot_to_client_from(
                          tcp_server_send(w1, slot,
                                          Command("KEEP_ALIVE", <<>>, <<>>, -1, -1)),
                          slot, 0)
            IN IF leader_id >= 0
               THEN tcp_server_send(w2, slot,
                                    Command("LEADER", <<>>, <<>>, 0, leader_id))
               ELSE w2

\* dstore_server_tick when a connection is waiting: tcp_server_run accepts
\* it into the free slot and calls on_connection.
dstore_server_accept(n, slot, ip_registered) ==
    /\ pc[n] = "server"
    /\ librale_is_shutdown_requested(n, "rale") = 0
    /\ librale_is_shutdown_requested(n, "dstore") = 0
    /\ client_socket_to_node[n][slot] = -1
    /\ Commit(n, dstore_server_on_connection(World(n), slot, ip_registered))
    /\ pc' = [pc EXCEPT ![n] = "client"]

AcceptLines ==
    {Command("HELLO", <<>>, <<>>, -1, 2), Command("LEADER", <<>>, <<>>, 1, 2), NoLine}

AcceptNext ==
    \/ \E slot \in Slots, c \in AcceptLines : dstore_server_tick(Self, slot, c)
    \/ \E slot \in Slots, ip_registered \in BOOLEAN :
           dstore_server_accept(Self, slot, ip_registered)
    \/ dstore_client_tick(Self, TRUE, TRUE)
    \/ \E m \in StoreDatagrams : Poll(Self, m)
    \/ \E expired \in BOOLEAN : Duty(Self, expired)

AcceptSpec == Init /\ [][AcceptNext]_vars

\* C34: while no HELLO that names a registered peer has arrived on a slot
\* of the server, the slot is attributed to no peer, connection_status is
\* set for no peer on its account, and the server sends no PROPAGATE_ADD
\* and no LEADER line on it: every step of node n's server with the slot
\* unattributed, other than the handling of such a HELLO, leaves the slot
\* unattributed and connection_status as it is, and sends no such line on
\* the slot.
C34_NothingBeforeHello ==
    [][\A n \in Nodes : \A slot \in Slots :
          (/\ pc[n] = "server"
           /\ pc'[n] = "client"
           /\ client_socket_to_node[n][slot] = -1
           /\ ~\E c \in HelloLines(n) : HandlesLine(n, c))
          => /\ client_socket_to_node'[n][slot] = -1
             /\ connection_status'[n] = connection_status[n]
             /\ ~\E s \in tcp_sent'[n] \ tcp_sent[n] :
                    /\ s.via = "server"
                    /\ s.to = slot
                    /\ s.line.verb \in {"PROPAGATE_ADD", "LEADER"}]_vars

\* C35: for every registered peer other than itself a node creates a TCP
\* client, and the scheduler comes to attempt a connection to it: while
\* the main loops keep running, node 1 comes to hold a client for each of
\* its peers.
C35_ClientForEveryPeer ==
    <>(\A i \in 0..(node_count - 1) :
           nodes[i + 1] # Self => tcp_clients[Self][i] # "NULL")

(***************************************************************************)
(* KeepAliveSpec: the main loop of node 1 with the clock, the HELLO lines  *)
(* that arrive on two connections of its server, and the keep-alive round  *)
(* that dstore_server_tick runs.                                           *)
(***************************************************************************)
\* get_keep_alive_interval(), in seconds.
keep_alive_interval == 2

KeepAliveSlots == {0, 1}

\* current_time - last >= get_keep_alive_interval()
interval_elapsed(last) == last = Never \/ now - last >= keep_alive_interval

\* The HELLO branch of dstore_server_on_receive with the timer it sets.
hello_keep_alive(sent, c) ==
    IF c.verb = "HELLO" /\ c.id >= 0 /\ find_node_index_by_id(c.id) # MAX_NODES
    THEN [sent EXCEPT ![find_node_index_by_id(c.id)] = now]
    ELSE sent

\* The loop of dstore_send_keep_alive from index i on: k is [sent, log],
\* the array last_keep_alive_sent and the lines sent so far.
RECURSIVE send_keep_alive_from(_, _, _)
send_keep_alive_from(w, k, i) ==
    IF i >= node_count THEN k
    ELSE send_keep_alive_from(
             w,
             IF /\ nodes[i + 1] # w.self
                /\ w.clients[i] = "connected"
                /\ w.status[i] = 1
                /\ interval_elapsed(k.sent[i])
             THEN [sent |-> [k.sent EXCEPT ![i] = now],
                   log |-> k.log \cup {[at |-> now, via |-> "client", to |-> i]}]
             ELSE k,
             i + 1)

\* The loop of dstore_server_send_keep_alive from slot i on.
RECURSIVE server_send_keep_alive_from(_, _, _)
server_send_keep_alive_from(w, k, i) ==
    IF i >= TCP_SERVER_MAX_CLIENTS THEN k
    ELSE LET node_idx == find_node_index_by_id(w.slots[i])
         IN server_send_keep_alive_from(
                w,
                IF /\ w.slots[i] # -1
                   /\ node_idx # MAX_NODES
                   /\ w.status[node_idx] = 1
                   /\ interval_elapsed(k.sent[node_idx])
                THEN [sent |-> [k.sent EXCEPT ![node_idx] = now],
                      log |-> k.log \cup {[at |-> now, via |-> "server", to |-> i]}]
                ELSE k,
                i + 1)

\* dstore_send_keep_alive
dstore_send_keep_alive(w, k) ==
    server_send_keep_alive_from(w, send_keep_alive_from(w, k, 0), 0)

\* dstore_server_tick with its keep-alive round: the line c, if any, is
\* handled, and when the interval has passed since last_keep_alive_check
\* (or at the first call) dstore_send_keep_alive runs.
dstore_server_tick_keep_alive(n, slot, c) ==
    /\ pc[n] = "server"
    /\ librale_is_shutdown_requested(n, "rale") = 0
    /\ librale_is_shutdown_requested(n, "dstore") = 0
    /\ LET w == IF c = NoLine THEN World(n)
                ELSE dstore_server_on_receive(World(n), slot, tcp_server_line(c))
           k == [sent |-> hello_keep_alive(last_keep_alive_sent, c),
                 log |-> keep_alive_log]
           due == interval_elapsed(last_keep_alive_check)
           k1 == IF due THEN dstore_send_keep_alive(w, k) ELSE k
       IN /\ LoopCommit(n, w)
          /\ last_keep_alive_sent' = k1.sent
          /\ keep_alive_log' = k1.log
          /\ last_keep_alive_check' = IF due THEN now ELSE last_keep_alive_check
    /\ pc' = [pc EXCEPT ![n] = "client"]
    /\ UNCHANGED <<shutdown_vars, registry_vars, hash_vars, timer_vars, link_vars,
                   wire_vars, backoff_vars>>

KeepAliveNext ==
    \/ Tick
    \/ \E slot \in KeepAliveSlots, c \in HelloLines(Self) \cup {NoLine} :
           dstore_server_tick_keep_alive(Self, slot, c)
    \/ dstore_client_tick(Self, TRUE, TRUE)
    \/ Poll(Self, Stray)
    \/ Duty(Self, FALSE)

KeepAliveSpec == Init /\ [][KeepAliveNext]_vars

\* The step is a tick of node 1's server with no line to handle in which
\* the keep-alive round runs.
RoundRuns ==
    /\ dstore_server_tick_keep_alive(Self, 0, NoLine)
    /\ last_keep_alive_check' = now
    /\ last_keep_alive_check # now

\* C36: each time keep_alive_interval seconds have passed, KEEP_ALIVE is
\* sent once on every connected client link and once on every server slot
\* whose peer is known: in a step in which the round runs, every slot that
\* a HELLO attributed to a peer, the interval having passed since the
\* peer's HELLO or last KEEP_ALIVE, and every client link that is
\* connected, is sent a KEEP_ALIVE, also when a second link to the same
\* peer exists.
C36_KeepAliveOnEveryLink ==
    [][RoundRuns =>
          /\ \A slot \in KeepAliveSlots :
                 (/\ client_socket_to_node[Self][slot] # -1
                  /\ interval_elapsed(
                         last_keep_alive_sent[
                             find_node_index_by_id(client_socket_to_node[Self][slot])]))
                 => [at |-> now, via |-> "server", to |-> slot] \in keep_alive_log'
          /\ \A i \in 0..(node_count - 1) :
                 (/\ tcp_clients[Self][i] = "connected"
                  /\ interval_elapsed(last_keep_alive_sent[i]))
                 => [at |-> now, via |-> "client", to |-> i] \in keep_alive_log']_vars

\* C37: shutdown is irrevocable: once librale_request_shutdown has been
\* called (system_exit is 1), librale_is_shutdown_requested(subsystem) is
\* true for every subsystem, also after the subsystem has signalled that
\* it is done.
C37_ShutdownStaysRequested ==
    \A n \in Nodes : \A subsystem \in Subsystems :
        system_exit[n] = 1 => librale_is_shutdown_requested(n, subsystem) # 0

(***************************************************************************)
(* RemoveSpec: node 1 with its registry of three nodes, the HELLO lines of *)
(* nodes 2 and 3 on two connections of its server, the calls of            *)
(* cluster_remove_node, and the PROPAGATE_ADD and PROPAGATE_REMOVE lines   *)
(* that name them.                                                         *)
(***************************************************************************)
\* find_node_index_by_id on the registry cl: the index of the entry with
\* this id, or MAX_NODES.
find_node_index_in(cl, id) ==
    IF entry_index(cl, id, 0) < cl.node_count THEN entry_index(cl, id, 0)
    ELSE MAX_NODES

\* The HELLO branch of dstore_server_on_receive: "HELLO <id>" is the first
\* line on the connection in slot.
server_on_hello(slot, id) ==
    /\ client_socket_to_node[Self][slot] = -1
    /\ LET peer_idx == find_node_index_in(cluster, id)
       IN IF id >= 0 /\ peer_idx # MAX_NODES
          THEN /\ client_socket_to_node' =
                      [client_socket_to_node EXCEPT ![Self][slot] = id]
               /\ connection_status' =
                      [connection_status EXCEPT ![Self][peer_idx] = 1]
               /\ last_keep_alive_sent' =
                      [last_keep_alive_sent EXCEPT ![peer_idx] = now]
          ELSE UNCHANGED <<client_socket_to_node, connection_status,
                           last_keep_alive_sent>>
    /\ UNCHANGED <<current_rale_state, votes_received, election_active, pc,
                   rale_state, hash_table, rale_db, tcp_clients, net, tcp_sent,
                   vote_grants, shutdown_vars, registry_vars, hash_vars,
                   timer_vars, link_vars, wire_vars, backoff_vars,
                   last_keep_alive_check, keep_alive_log>>

RemoveNext ==
    \/ \E slot \in KeepAliveSlots, id \in Nodes \ {Self} : server_on_hello(slot, id)
    \/ \E id \in Nodes \ {Self} : remove_node(id, 2 + 5 * MAX_NODES)
    \/ \E id \in Nodes \ {Self} : propagated_remove(id, 2 + 5 * MAX_NODES)
    \/ \E id \in Nodes \ {Self} : propagated_add(id, "none", 2 + 5 * MAX_NODES)

RemoveSpec == Init /\ [][RemoveNext]_vars

\* C38: the runtime state that DStore keeps by registry position still
\* belongs to the node at that position after a removal has shifted the
\* registry: a position whose connection_status is 1 holds a node whose
\* HELLO arrived on some slot, and a registered node whose HELLO arrived on
\* a slot has connection_status 1 at its position.
C38_StatusFollowsRegistry ==
    /\ \A idx \in DOMAIN connection_status[Self] :
           connection_status[Self][idx] = 1
           => /\ idx < cluster.node_count
              /\ \E slot \in KeepAliveSlots :
                     client_socket_to_node[Self][slot] = cluster.nodes[idx].id
    /\ \A slot \in KeepAliveSlots :
           LET id == client_socket_to_node[Self][slot]
           IN (id # -1 /\ find_node_index_in(cluster, id) # MAX_NODES)
              => connection_status[Self][find_node_index_in(cluster, id)] = 1

(***************************************************************************)
(* AckSpec: TimerSpec, and the HEARTBEAT_ACK datagrams that answer node    *)
(* 1's heartbeats.  strncmp(msg, "HEARTBEAT", 9) takes them into the       *)
(* HEARTBEAT branch.                                                       *)
(***************************************************************************)
HeartbeatAck == Datagram("HEARTBEAT_ACK", -1, -1, FALSE)

AckNext ==
    \/ Tick
    \/ \E slot \in Slots : dstore_server_tick(Self, slot, NoLine)
    \/ \E attempt \in BOOLEAN, accepts \in BOOLEAN :
           dstore_client_tick(Self, attempt, accepts)
    \/ \E m \in TimerDatagrams \cup {HeartbeatAck}, jitter \in Jitters :
           Receive(Self, m, jitter)
    \/ \E jitter \in Jitters : Duties(Self, jitter)

AckSpec == TimerStart /\ [][AckNext]_vars

\* C39: a HEARTBEAT_ACK datagram changes nothing of the RALE state of the
\* node that receives it, last_heartbeat included, and no datagram is sent
\* in reply.
C39_AckChangesNothing ==
    [][(\E jitter \in Jitters : Receive(Self, HeartbeatAck, jitter))
           => /\ current_rale_state' = current_rale_state
              /\ votes_received' = votes_received
              /\ election_active' = election_active
              /\ last_heartbeat' = last_heartbeat
              /\ net' = net]_vars

(***************************************************************************)
(* BackoffSpec: the attempts of node 1's dstore_client_tick to connect to  *)
(* one peer, at registry index i, whose client tcp_clients[i] exists.  The *)
(* peer accepts an attempt or not, and closes a connection at any time.    *)
(***************************************************************************)
CONNECTION_RETRY_INTERVAL == 5

\* int retry_interval, as the attempt block computes it from
\* connection_attempt_count[i].
retry_interval(count) ==
    IF count > 10 THEN CONNECTION_RETRY_INTERVAL * 4
    ELSE IF count > 5 THEN CONNECTION_RETRY_INTERVAL * 2
    ELSE CONNECTION_RETRY_INTERVAL

\* current_time - last < interval; a time_t that was never set is further
\* back than any interval.
too_soon(last, interval) == last # Never /\ now - last < interval

\* time(NULL) returns one more.
Elapse ==
    /\ now < MaxClock
    /\ now' = now + 1
    /\ UNCHANGED <<loop_vars, shutdown_vars, registry_vars, hash_vars,
                   link_vars, wire_vars, keepalive_vars, backoff_vars,
                   last_heartbeat, election_deadline, granted_at>>

\* tcp_client_run on a connected client: tcp_client_receive clears
\* is_connected when recv returns 0 or less.
tcp_client_run(connected, recv_len) ==
    IF connected = 1 /\ recv_len <= 0 THEN 0 ELSE connected

\* dstore_client_tick.  ret: what tcp_client_connect returns if it is
\* called; recv_len: what recv returns if tcp_client_run is called.
dstore_client_tick_backoff(ret, recv_len) ==
    /\ IF first_run = 1
       THEN /\ first_run' = 0
            /\ UNCHANGED <<last_connect_attempt, last_connection_attempt,
                           connection_attempt_count, is_connected,
                           connect_calls>>
       ELSE IF too_soon(last_connect_attempt, 1)
       THEN /\ is_connected' = tcp_client_run(is_connected, recv_len)
            /\ UNCHANGED <<last_connect_attempt, last_connection_attempt,
                           connection_attempt_count, connect_calls, first_run>>
       ELSE /\ last_connect_attempt' = now
            /\ UNCHANGED first_run
            /\ IF is_connected = 1
               THEN /\ is_connected' = tcp_client_run(is_connected, recv_len)
                    /\ UNCHANGED <<last_connection_attempt,
                                   connection_attempt_count, connect_calls>>
               ELSE IF too_soon(last_connection_attempt,
                                retry_interval(connection_attempt_count))
               THEN UNCHANGED <<last_connection_attempt,
                                connection_attempt_count, is_connected,
                                connect_calls>>
               ELSE /\ last_connection_attempt' = now
                    /\ connect_calls' = connect_calls + 1
                    /\ connection_attempt_count' =
                           IF ret = 0 THEN 0 ELSE connection_attempt_count + 1
                    /\ is_connected' = IF ret = 0 THEN 1 ELSE 0
    /\ UNCHANGED <<loop_vars, shutdown_vars, registry_vars, hash_vars,
                   timer_vars, link_vars, wire_vars, keepalive_vars>>

BackoffNext ==
    \/ Elapse
    \/ \E ret \in {0, -1}, recv_len \in {0, 1} :
           dstore_client_tick_backoff(ret, recv_len)

BackoffSpec == Init /\ [][BackoffNext]_vars

\* The least time between two attempts that the backoff promises after
\* failed attempts in a row.
promised_interval(failed) ==
    IF failed >= 10 THEN CONNECTION_RETRY_INTERVAL * 4
    ELSE IF failed >= 5 THEN CONNECTION_RETRY_INTERVAL * 2
    ELSE CONNECTION_RETRY_INTERVAL

=============================================================================
